---- MODULE Spec2Model ----
(***************************************************************************)
(* A model of sserver's expression parser (sserver/parse) and template     *)
(* renderer (sserver/templating).                                          *)
(*                                                                         *)
(* Text is a sequence of one-character strings.  A Python value is a       *)
(* record [t |-> type name, v |-> payload]; an Operator token standing in  *)
(* a list of evaluated items is the record with t = "Operator".  A         *)
(* function that may raise returns a record [exc, msg, value] whose exc is *)
(* "" when it returns normally and the exception class name otherwise.     *)
(***************************************************************************)
EXTENDS Integers, Sequences, FiniteSets, TLC

----------------------------------------------------------------------------
(* Bounds of the model *)

\* longest expression text enumerated exhaustively over Alphabet
MaxLen == 3
\* most binary operators in an enumerated operand/operator alternation
MaxOps == 3
\* longest arbitrary token list handed to Expression.evaluate
MaxItems == 3
\* the longest template enumerated, in pieces
MaxPieces == 3
\* the longest template enumerated with one tag a line, in lines
MaxTags == 4
\* the longest list of sub tags registered with a block tag
MaxSubTags == 1

----------------------------------------------------------------------------
(* Python values *)

PyInt(n) == [t |-> "int", i |-> n]
PyBool(b) == [t |-> "bool", b |-> b]
\* a float written mantissa * 10^-scale, without trailing fraction zeros
PyFloat(m, s) == [t |-> "float", f |-> <<m, s>>]
PyNone == [t |-> "NoneType"]
PyStr(s) == [t |-> "str", s |-> s]
PyList(s) == [t |-> "list", l |-> s]
\* a dict is its sequence of <<key, value>> entries, keys being text
PyDict(s) == [t |-> "dict", d |-> s]
OperatorItem(op) == [t |-> "Operator", op |-> op]

\* math.pi, to two decimals
PI == PyFloat(314, 2)

Returns(v) == [exc |-> "", msg |-> "", value |-> v]
Raises(e, m) == [exc |-> e, msg |-> m, value |-> PyNone]

----------------------------------------------------------------------------
(* Characters *)

Digits == {"0", "1", "2", "3", "4", "5", "6", "7", "8", "9"}
Letters == {"a", "b", "c", "d", "e", "f", "g", "h", "i", "j", "k", "l", "m", "n", "o", "p", "q", "r", "s", "t", "u", "v", "w", "x", "y", "z", "A", "B", "C", "D", "E", "F", "G", "H", "I", "J", "K", "L", "M", "N", "O", "P", "Q", "R", "S", "T", "U", "V", "W", "X", "Y", "Z"}
Whitespace == {" ", "\t", "\n"}

DigitValue(c) == CASE c = "0" -> 0 [] c = "1" -> 1 [] c = "2" -> 2 [] c = "3" -> 3 [] c = "4" -> 4 [] c = "5" -> 5 [] c = "6" -> 6 [] c = "7" -> 7 [] c = "8" -> 8 [] c = "9" -> 9

\* str.isspace, str.isnumeric and str.isidentifier on one character
IsSpace(c) == c \in Whitespace
IsNumeric(c) == c \in Digits
IsIdentifierStart(c) == c \in Letters \cup {"_"}
IsIdentifierChar(c) == c \in Letters \cup Digits \cup {"_"}

\* str.isidentifier
IsIdentifier(s) ==
    /\ Len(s) > 0
    /\ IsIdentifierStart(s[1])
    /\ \A k \in 2..Len(s) : IsIdentifierChar(s[k])

\* str.startswith
StartsWith(s, prefix) ==
    /\ Len(prefix) <= Len(s)
    /\ \A k \in 1..Len(prefix) : s[k] = prefix[k]

RECURSIVE RStrip(_)
\* str.rstrip: the text without its trailing whitespace
RStrip(s) == IF Len(s) > 0 /\ IsSpace(s[Len(s)]) THEN RStrip(SubSeq(s, 1, Len(s) - 1)) ELSE s

RECURSIVE LStrip(_)
\* str.lstrip
LStrip(s) == IF Len(s) > 0 /\ IsSpace(s[1]) THEN LStrip(Tail(s)) ELSE s

Strip(s) == LStrip(RStrip(s))

AllDigits(s) == Len(s) > 0 /\ \A k \in 1..Len(s) : s[k] \in Digits

RECURSIVE DigitsValue(_)
DigitsValue(s) == IF Len(s) = 0 THEN 0 ELSE 10 * DigitsValue(SubSeq(s, 1, Len(s) - 1)) + DigitValue(s[Len(s)])

\* positions of "." in s
DotPositions(s) == {k \in 1..Len(s) : s[k] = "."}

\* int(text) succeeds: digits, surrounded by optional whitespace
IsIntText(s) == AllDigits(Strip(s))

\* float(text) succeeds, for the texts a NumericLiteral can hold (a digit
\* first): digits, an optional point with optional fraction digits, and
\* optional whitespace around
IsFloatText(s) ==
    LET b == Strip(s)
    IN  \/ AllDigits(b)
        \/ /\ Cardinality(DotPositions(b)) = 1
           /\ LET d == CHOOSE k \in DotPositions(b) : TRUE
              IN  /\ \A k \in (1..Len(b)) \ {d} : b[k] \in Digits
                  /\ Len(b) > 1

RECURSIVE StripZeros(_)
StripZeros(s) == IF Len(s) > 0 /\ s[Len(s)] = "0" THEN StripZeros(SubSeq(s, 1, Len(s) - 1)) ELSE s

\* float(text) of a text with one point
FloatOfText(s) ==
    LET b == Strip(s)
        d == CHOOSE k \in DotPositions(b) : TRUE
        frac == StripZeros(SubSeq(b, d + 1, Len(b)))
    IN  PyFloat(DigitsValue(SubSeq(b, 1, d - 1) \o frac), Len(frac))

----------------------------------------------------------------------------
(* literal.py: the operator tables and the Operator class *)

CONSTANT_OPERATOR_MAP == {<<"p", "i">>}
CONSTANT_OPERATOR_PRECEDENCE == 8
ARITHMETIC_OPERATOR_MAP == {<<"+">>, <<"-">>, <<"*">>, <<"/">>, <<"/", "/">>, <<"%">>, <<"*", "*">>}
LOGICAL_OPERATOR_MAP == {<<"=", "=">>, <<"!", "=">>, <<">">>, <<">", "=">>, <<"<">>, <<"<", "=">>, <<"i", "n">>}
LOGICAL_OPERATOR_PRECEDENCE == 4
KEYWORD_OPERATOR_MAP == {<<"n", "o", "t">>, <<"a", "n", "d">>, <<"o", "r">>}

VALID_OPERATOR_CHARS == ARITHMETIC_OPERATOR_MAP \cup CONSTANT_OPERATOR_MAP \cup LOGICAL_OPERATOR_MAP \cup KEYWORD_OPERATOR_MAP

\* the 'precedence' entries of ARITHMETIC_OPERATOR_MAP and KEYWORD_OPERATOR_MAP
MapPrecedence(op) ==
    CASE op \in {<<"+">>, <<"-">>} -> 5
      [] op \in {<<"*">>, <<"/">>, <<"/", "/">>, <<"%">>} -> 6
      [] op = <<"*", "*">> -> 7
      [] op = <<"n", "o", "t">> -> 3
      [] op = <<"a", "n", "d">> -> 2
      [] op = <<"o", "r">> -> 1

\* Operator.is_valid_operator
is_valid_operator(char) == char \in VALID_OPERATOR_CHARS

\* Operator.string_could_be_operator
string_could_be_operator(string) == \E operator \in VALID_OPERATOR_CHARS : StartsWith(operator, string)

\* a precedence that puts the constants behind every other operator
precedence_constant_last(op) ==
    IF op \in LOGICAL_OPERATOR_MAP THEN LOGICAL_OPERATOR_PRECEDENCE
    ELSE IF op \in CONSTANT_OPERATOR_MAP THEN 0
    ELSE MapPrecedence(op)

\* Operator.precedence
precedence(op) ==
    IF op \in LOGICAL_OPERATOR_MAP THEN LOGICAL_OPERATOR_PRECEDENCE
    ELSE IF op \in CONSTANT_OPERATOR_MAP THEN CONSTANT_OPERATOR_PRECEDENCE
    ELSE MapPrecedence(op)

\* Operator.argument_count: the parameter count of the operator's function
argument_count(op) ==
    IF op \in CONSTANT_OPERATOR_MAP THEN 0
    ELSE IF op = <<"n", "o", "t">> THEN 1
    ELSE 2

\* the numeric types of Python's arithmetic; a bool counts as 0 or 1
IsIntLike(x) == x.t \in {"int", "bool"}
IntOf(x) == IF x.t = "bool" THEN (IF x.b THEN 1 ELSE 0) ELSE x.i

RECURSIVE Power(_, _)
Power(a, n) == IF n <= 0 THEN 1 ELSE a * Power(a, n - 1)

\* Python's == on two values
PyEq(x, y) ==
    IF IsIntLike(x) /\ IsIntLike(y) THEN IntOf(x) = IntOf(y)
    ELSE IF x.t = "float" /\ IsIntLike(y) THEN x.f = <<IntOf(y), 0>>
    ELSE IF IsIntLike(x) /\ y.t = "float" THEN y.f = <<IntOf(x), 0>>
    ELSE IF x.t = "Operator" \/ y.t = "Operator" THEN FALSE
    ELSE x = y

\* bool(value)
Truthy(x) ==
    CASE x.t = "bool" -> x.b
      [] x.t = "int" -> x.i # 0
      [] x.t = "float" -> x.f[1] # 0
      [] x.t = "NoneType" -> FALSE
      [] x.t = "str" -> Len(x.s) > 0
      [] x.t = "list" -> Len(x.l) > 0
      [] x.t = "dict" -> Len(x.d) > 0
      [] x.t = "Operator" -> TRUE

RECURSIVE NormalFloat(_, _)
\* the float m * 10^-s without trailing fraction zeros
NormalFloat(m, s) == IF s > 0 /\ m % 10 = 0 THEN NormalFloat(m \div 10, s - 1) ELSE PyFloat(m, s)

\* int, bool or float operand as <<mantissa, scale>>
DecimalOf(x) == IF x.t = "float" THEN x.f ELSE <<IntOf(x), 0>>

\* + - * on operands of which one at least is a float (floats are kept as
\* exact decimals)
FloatArithmetic(op, x, y) ==
    LET s == IF x[2] >= y[2] THEN x[2] ELSE y[2]
        xm == x[1] * Power(10, s - x[2])
        ym == y[1] * Power(10, s - y[2])
    IN  CASE op = <<"+">> -> NormalFloat(xm + ym, s)
          [] op = <<"-">> -> NormalFloat(xm - ym, s)
          [] op = <<"*">> -> NormalFloat(x[1] * y[1], x[2] + y[2])

IsNumber(x) == x.t \in {"int", "bool", "float"}

\* Operator.__call__: the operator's function on the given arguments.  The
\* functions modelled are those of + - * ** == != not and pi.  The
\* arithmetic ones are modelled on numbers (** on int and bool with an
\* exponent >= 0 only) and on the operands that make them raise TypeError:
\* None, dicts and Operator objects.
OperatorCall(op, a) ==
    CASE op = <<"p", "i">> -> Returns(PI)
      [] op = <<"n", "o", "t">> -> Returns(PyBool(~Truthy(a[1])))
      [] op = <<"=", "=">> -> Returns(PyBool(PyEq(a[1], a[2])))
      [] op = <<"!", "=">> -> Returns(PyBool(~PyEq(a[1], a[2])))
      [] op \in {<<"+">>, <<"-">>, <<"*">>, <<"*", "*">>} /\ IsIntLike(a[1]) /\ IsIntLike(a[2]) ->
            (LET x == IntOf(a[1])
                 y == IntOf(a[2])
             IN  CASE op = <<"+">> -> Returns(PyInt(x + y))
                   [] op = <<"-">> -> Returns(PyInt(x - y))
                   [] op = <<"*">> -> Returns(PyInt(x * y))
                   [] op = <<"*", "*">> /\ y >= 0 -> Returns(PyInt(Power(x, y))))
      [] op \in {<<"+">>, <<"-">>, <<"*">>} /\ IsNumber(a[1]) /\ IsNumber(a[2]) ->
            Returns(FloatArithmetic(op, DecimalOf(a[1]), DecimalOf(a[2])))
      [] op \in {<<"+">>, <<"-">>, <<"*">>, <<"*", "*">>} /\ (a[1].t \in {"NoneType", "dict", "Operator"} \/ a[2].t \in {"NoneType", "dict", "Operator"}) ->
            Raises("TypeError", "unsupported operand type(s)")

----------------------------------------------------------------------------
(* Tokens: the items of an Expression.  A token is a record whose cls is   *)
(* its class; a NumericLiteral's value is its text, an Operator's value    *)
(* its symbol, and an Identifier's value the names of its chain, the       *)
(* identifier itself first and then each _child_identifier in turn.        *)

NumericLiteral(text) == [cls |-> "NumericLiteral", text |-> text]
Identifier(names) == [cls |-> "Identifier", names |-> names]
Operator(char) == [cls |-> "Operator", symbol |-> char]

\* BaseLiteral.evaluate with _value_type = (int, float)
LiteralEvaluate(value) ==
    IF IsIntText(value) THEN Returns(PyInt(DigitsValue(Strip(value))))
    ELSE IF IsFloatText(value) THEN Returns(FloatOfText(value))
    ELSE Raises("ExpressionSyntaxException", "Invalid literal value")

\* the entry of a dict for a key, as a sequence of zero or one values
DictGet(d, key) ==
    LET hits == {k \in 1..Len(d) : d[k][1] = key}
    IN  IF hits = {} THEN <<>> ELSE <<d[CHOOSE k \in hits : \A j \in hits : k <= j][2]>>

RECURSIVE IdentifierEvaluate(_, _)
\* Identifier.evaluate: `names[1] in context`, then context[names[1]], then
\* the child identifier on that value
IdentifierEvaluate(names, ctx) ==
    CASE ctx.t = "dict" ->
            LET hit == DictGet(ctx.d, names[1])
            IN  IF hit = <<>> THEN Returns(PyNone)
                ELSE IF Len(names) = 1 THEN Returns(hit[1])
                ELSE IdentifierEvaluate(Tail(names), hit[1])
      [] ctx.t = "list" ->
            IF \E k \in 1..Len(ctx.l) : PyEq(PyStr(names[1]), ctx.l[k])
            THEN Raises("TypeError", "list indices must be integers")
            ELSE Returns(PyNone)
      [] ctx.t \in {"int", "bool", "float", "NoneType"} ->
            Raises("TypeError", "argument is not iterable")

\* item.evaluate(context) for an Evaluatable item
ItemEvaluate(item, ctx) ==
    IF item.cls = "NumericLiteral" THEN LiteralEvaluate(item.text)
    ELSE IdentifierEvaluate(item.names, ctx)

----------------------------------------------------------------------------
(* State *)

VARIABLES
    entry,               \* the function called: its name
    context,             \* the context mapping of the call
    args,                \* parse_string_to_object_list: the text being parsed
    position,            \* ... the index (from 0) of the next character
    parsed_args,         \* ... the tokens so far
    current_identifier,  \* ... zero or one Identifier in progress
    current_literal,     \* ... zero or one literal in progress
    current_operator,    \* ... zero or one operator candidate in progress
    items,               \* Expression._items
    evaluated_items,     \* ParseTree.evaluate: the working list
    operator_matches,    \* ... the [index, operator] pairs, sorted
    op_cursor,           \* ... the place in operator_matches of the loop
    pc,                  \* where the call stands
    outcome,             \* what the call returned or raised
    template_str,        \* TemplateRenderer.render: the template's text
    match_index,         \* _preprocess: the number of tag matches looked at
    preprocessed_template_str, \* ... the output so far
    next_start_index,    \* ... where the text still to copy starts
    opened_block,        \* ... zero or one _TagLogicBlock awaiting its end
    inline_tag_map,      \* register.py: _inline_tag_map, in insertion order
    block_tag_map,       \* register.py: _block_tag_map, in insertion order
    registration,        \* ... zero or one call: the arguments of the last
    literal_syntax_map   \* literal.py: _literal_syntax_map, in insertion order

parseVars == <<args, position, parsed_args, current_identifier, current_literal, current_operator>>
evalVars == <<items, evaluated_items, operator_matches, op_cursor>>
renderVars == <<template_str, match_index, preprocessed_template_str, next_start_index, opened_block>>
registerVars == <<inline_tag_map, block_tag_map, registration>>
literalVars == <<literal_syntax_map>>
vars == <<entry, context, parseVars, evalVars, renderVars, registerVars, literalVars, pc, outcome>>

Running == [exc |-> "", msg |-> "running", value |-> PyNone]

----------------------------------------------------------------------------
(* parse_tree.py: Expression.evaluate and ParseTree.evaluate *)

\* the item of a Python list at index i (from 0; a negative index counts
\* from the end), as zero or one values
ListItem(seq, i) ==
    IF 0 <= i /\ i < Len(seq) THEN <<seq[i + 1]>>
    ELSE IF i < 0 /\ -i <= Len(seq) THEN <<seq[Len(seq) + i + 1]>>
    ELSE <<>>

\* del seq[i], for 0 <= i < len(seq)
ListDelete(seq, i) == SubSeq(seq, 1, i) \o SubSeq(seq, i + 2, Len(seq))

RECURSIVE ListDeleteTimes(_, _, _)
\* `for _ in range(n): del seq[i]`
ListDeleteTimes(seq, i, n) == IF n = 0 THEN seq ELSE ListDeleteTimes(ListDelete(seq, i), i, n - 1)

\* lines 116-123: every Evaluatable item evaluated, every Operator kept
EvaluateItems(its, ctx) ==
    [k \in 1..Len(its) |-> IF its[k].cls = "Operator" THEN Returns(OperatorItem(its[k].symbol)) ELSE ItemEvaluate(its[k], ctx)]

\* lines 127-131: the [index, operator] pair of every Operator, in order
OperatorMatches(evaluated) ==
    LET at == {k \in 1..Len(evaluated) : evaluated[k].t = "Operator"}
        Nth[n \in 1..Cardinality(at)] == CHOOSE k \in at : Cardinality({j \in at : j < k}) = n - 1
    IN  [n \in 1..Cardinality(at) |-> [index |-> Nth[n] - 1, operator |-> evaluated[Nth[n]].op]]

\* a sort that is not stable: m goes in front of the matches of its own
\* precedence
SortInsertUnstable(sorted, m) ==
    LET k == Cardinality({j \in 1..Len(sorted) : precedence(sorted[j].operator) > precedence(m.operator)})
    IN  SubSeq(sorted, 1, k) \o <<m>> \o SubSeq(sorted, k + 1, Len(sorted))

\* one step of a stable sort by precedence, highest first: m goes behind
\* every match whose precedence is at least its own
SortInsert(sorted, m) ==
    LET k == Cardinality({j \in 1..Len(sorted) : precedence(sorted[j].operator) >= precedence(m.operator)})
    IN  SubSeq(sorted, 1, k) \o <<m>> \o SubSeq(sorted, k + 1, Len(sorted))

RECURSIVE SortOperatorMatches(_)
\* lines 134-137: operator_matches.sort(key=precedence, reverse=True); the
\* sort is stable, matches of equal precedence keep their order
SortOperatorMatches(matches) ==
    IF matches = <<>> THEN <<>>
    ELSE SortInsert(SortOperatorMatches(SubSeq(matches, 1, Len(matches) - 1)), matches[Len(matches)])

\* lines 209-213: the recorded index of an operator after one at `index`
\* took expected_args slots out of the list
ShiftedIndex(operator_list_index, index, expected_args) ==
    IF operator_list_index > index THEN operator_list_index - expected_args ELSE operator_list_index

\* a check of the right neighbour that lets the index one past the end by
MissingRightOperandLate(has_right_operand, index, evaluated_items_len) == has_right_operand /\ index + 1 > evaluated_items_len

\* line 170 and line 177: the checks of the two neighbours
MissingLeftOperand(has_left_operand, index) == has_left_operand /\ index - 1 < 0
MissingRightOperand(has_right_operand, index, evaluated_items_len) == has_right_operand /\ index + 1 >= evaluated_items_len

\* Expression.evaluate, lines 47-65
ExpressionEvaluate ==
    /\ pc = "evaluate"
    /\ IF Len(items) = 1
       THEN /\ outcome' = IF items[1].cls # "Operator" THEN ItemEvaluate(items[1], context)
                          ELSE IF argument_count(items[1].symbol) = 0 THEN OperatorCall(items[1].symbol, <<>>)
                          ELSE Raises("ExpressionSyntaxException", "Unexpected operator")
            /\ pc' = "done"
       ELSE /\ pc' = "parse_tree"
            /\ outcome' = outcome
    /\ UNCHANGED <<entry, context, parseVars, evalVars, renderVars, registerVars, literalVars>>

\* ParseTree.evaluate, lines 114-137
ParseTreeStart ==
    /\ pc = "parse_tree"
    /\ LET results == EvaluateItems(items, context)
           raised == {k \in 1..Len(results) : results[k].exc # ""}
       IN  IF raised # {}
           THEN /\ outcome' = results[CHOOSE k \in raised : \A j \in raised : k <= j]
                /\ pc' = "done"
                /\ UNCHANGED <<evaluated_items, operator_matches, op_cursor>>
           ELSE /\ evaluated_items' = [k \in 1..Len(results) |-> results[k].value]
                /\ operator_matches' = SortOperatorMatches(OperatorMatches(evaluated_items'))
                /\ op_cursor' = 1
                /\ pc' = "loop"
                /\ outcome' = outcome
    /\ UNCHANGED <<entry, context, parseVars, items, renderVars, registerVars, literalVars>>

\* ParseTree.evaluate, lines 140-213: one turn of the loop over the sorted
\* operators
ParseTreeApplyOperator ==
    /\ pc = "loop"
    /\ op_cursor <= Len(operator_matches)
    /\ LET index == operator_matches[op_cursor].index
           operator == operator_matches[op_cursor].operator
           expected_args == argument_count(operator)
           has_left_operand == expected_args = 2
           has_right_operand == expected_args \in {1, 2}
           left == ListItem(evaluated_items, index - 1)
           right == ListItem(evaluated_items, index + 1)
           operator_args == (IF has_left_operand THEN left ELSE <<>>) \o (IF has_right_operand THEN right ELSE <<>>)
           called == OperatorCall(operator, operator_args)
           index_to_replace == IF has_left_operand THEN index - 1 ELSE index
           index_to_remove_from == IF has_left_operand THEN index ELSE index + 1
           raise(r) == outcome' = r /\ pc' = "done" /\ UNCHANGED <<evaluated_items, operator_matches, op_cursor>>
       IN  IF expected_args = 0
           THEN /\ evaluated_items' = [evaluated_items EXCEPT ![index + 1] = called.value]
                /\ op_cursor' = op_cursor + 1
                /\ UNCHANGED <<operator_matches, pc, outcome>>
           ELSE IF MissingLeftOperand(has_left_operand, index)
           THEN raise(Raises("ExpressionSyntaxException", "missing a left operand"))
           ELSE IF MissingRightOperand(has_right_operand, index, Len(evaluated_items))
           THEN raise(Raises("ExpressionSyntaxException", "missing a right operand"))
           ELSE IF Len(operator_args) # expected_args
           THEN raise(Raises("IndexError", "list index out of range"))
           ELSE IF called.exc # ""
           THEN raise(called)
           ELSE /\ evaluated_items' = ListDeleteTimes([evaluated_items EXCEPT ![index_to_replace + 1] = called.value], index_to_remove_from, expected_args)
                /\ operator_matches' = [k \in 1..Len(operator_matches) |-> [operator_matches[k] EXCEPT !.index = ShiftedIndex(@, index, expected_args)]]
                /\ op_cursor' = op_cursor + 1
                /\ UNCHANGED <<pc, outcome>>
    /\ UNCHANGED <<entry, context, parseVars, items, renderVars, registerVars, literalVars>>

\* an end of the evaluation that returns the first of the items left
ParseTreeResultFirst(evaluated) ==
    IF Len(evaluated) = 0 THEN Returns(PyNone) ELSE Returns(evaluated[1])

\* ParseTree.evaluate, lines 215-227: what the call gives once every
\* operator was applied, the items left in the list given
ParseTreeResult(evaluated) ==
    IF Len(evaluated) = 0 THEN Returns(PyNone)
    ELSE IF Len(evaluated) # 1 THEN Raises("ExpressionSyntaxException", "is not valid")
    ELSE Returns(evaluated[1])

\* ParseTree.evaluate, lines 215-227
ParseTreeFinish ==
    /\ pc = "loop"
    /\ op_cursor > Len(operator_matches)
    /\ outcome' = ParseTreeResult(evaluated_items)
    /\ pc' = "done"
    /\ UNCHANGED <<entry, context, parseVars, evalVars, renderVars, registerVars, literalVars>>

----------------------------------------------------------------------------
(* literal.py: the literal registry, as parse.py's decorators fill it *)

\* _literal_syntax_map: the start characters registered by StringLiteral
\* (lines 21-26), ListLiteral (145-149) and ParenthesisLiteral (258-262)
LITERAL_SYNTAX_MAP ==
    [char \in {"\"", "'", "[", "("} |->
        CASE char = "\"" -> [value_type |-> "str", escape_char |-> <<"\\">>, end_char |-> <<"\"">>, literal_class |-> <<"StringLiteral">>]
          [] char = "'" -> [value_type |-> "str", escape_char |-> <<"\\">>, end_char |-> <<"'">>, literal_class |-> <<"StringLiteral">>]
          [] char = "[" -> [value_type |-> "list", escape_char |-> <<>>, end_char |-> <<"]">>, literal_class |-> <<"ListLiteral">>]
          [] char = "(" -> [value_type |-> "Expression", escape_char |-> <<>>, end_char |-> <<")">>, literal_class |-> <<"ParenthesisLiteral">>]]

\* the keys of _literal_syntax_map in the order parse.py registers them
LiteralStartChars == <<"\"", "'", "[", "(">>

\* _literal_syntax_map once parse.py is imported: the start and the end
\* character of each entry
RegisteredLiterals ==
    [k \in 1..Len(LiteralStartChars) |-> [start_char |-> LiteralStartChars[k], end_char |-> LITERAL_SYNTAX_MAP[LiteralStartChars[k]].end_char[1]]]

\* isinstance(value_type, type): str, list and Expression are classes
IsType(value_type) == value_type \in {"str", "list", "Expression", "int", "float"}

\* a literal in progress: its class, its text so far and its end character
Literal(cls, text, end_char) == [cls |-> cls, text |-> text, end_char |-> end_char]

\* create_literal, lines 766-777: the exception raised, or the literal
create_literal(char, match) ==
    IF IsType(match.value_type) THEN [exc |-> "ValueError", msg |-> "Invalid value type for literal", literal |-> <<>>]
    ELSE IF match.literal_class = <<>> THEN [exc |-> "UnknownLiteralTypeException", msg |-> "Unknown literal type", literal |-> <<>>]
    ELSE [exc |-> "", msg |-> "", literal |-> <<Literal(match.literal_class[1], <<>>, match.end_char)>>]

\* BaseLiteral._can_terminate
can_terminate(literal) == literal.end_char = <<>>

----------------------------------------------------------------------------
(* parse.py: parse_string_to_object_list *)

\* the tokenizer's locals.  An optional value is a sequence of zero or one
\* elements; step says whether the current character is still to be
\* looked at ("fall") or the loop goes on to the next one ("continue"), or
\* an exception left the function ("raise").
Locals(pa, id, lit, op) == [parsed_args |-> pa, current_identifier |-> id, current_literal |-> lit, current_operator |-> op, step |-> "fall", exc |-> "", msg |-> ""]

Continue(st) == [st EXCEPT !.step = "continue"]
Raise(st, e, m) == [st EXCEPT !.step = "raise", !.exc = e, !.msg = m]

\* lines 383-423: an operator candidate is in progress
ScanOperator(st, char) ==
    LET candidate == st.current_operator[1]
    IN  IF st.current_operator = <<>> THEN st
        ELSE IF string_could_be_operator(Append(candidate, char))
        THEN Continue([st EXCEPT !.current_operator = <<Append(candidate, char)>>])
        ELSE IF is_valid_operator(candidate)
        THEN [st EXCEPT !.parsed_args = Append(@, Operator(candidate)), !.current_operator = <<>>]
        ELSE IF IsIdentifier(Append(candidate, char))
        THEN Continue([st EXCEPT !.current_identifier = <<Identifier(<<Append(candidate, char)>>)>>, !.current_operator = <<>>])
        ELSE IF IsIdentifier(candidate)
        THEN [st EXCEPT !.parsed_args = Append(@, Identifier(<<candidate>>)), !.current_operator = <<>>]
        ELSE Raise(st, "ExpressionSyntaxException", "Unknown operator")

\* BaseLiteral._append_literal_match, which NumericLiteral inherits
append_literal_match(literal, char) == Raises("ExpressionSyntaxException", "Unexpected literal match")

\* lines 427-462: the character starts a registered literal
ScanLiteralMatch(st, char) ==
    IF st.step # "fall" \/ char \notin DOMAIN LITERAL_SYNTAX_MAP THEN st
    ELSE IF st.current_identifier # <<>>
    THEN Raise(st, "ExpressionSyntaxException", "Unexpected literal character")
    ELSE IF st.current_literal = <<>>
    THEN LET created == create_literal(char, LITERAL_SYNTAX_MAP[char])
         IN  IF created.exc # "" THEN Raise(st, created.exc, created.msg)
             ELSE Continue([st EXCEPT !.current_literal = created.literal])
    ELSE LET terminated == append_literal_match(st.current_literal[1], char)
         IN  Raise(st, terminated.exc, terminated.msg)

\* a numeric literal that swallows the character that ends it
append_character_swallowed(literal, char) ==
    IF IsFloatText(Append(literal.text, char))
    THEN [terminated |-> FALSE, character_consumed |-> TRUE, literal |-> [literal EXCEPT !.text = Append(@, char)]]
    ELSE [terminated |-> TRUE, character_consumed |-> TRUE, literal |-> literal]

\* NumericLiteral._append_character, lines 83-97: <<terminated, consumed>>
\* and the literal's text afterwards
append_character(literal, char) ==
    IF IsFloatText(Append(literal.text, char))
    THEN [terminated |-> FALSE, character_consumed |-> TRUE, literal |-> [literal EXCEPT !.text = Append(@, char)]]
    ELSE [terminated |-> TRUE, character_consumed |-> FALSE, literal |-> literal]

\* lines 467-482: a literal is in progress
ScanLiteral(st, char) ==
    IF st.step # "fall" \/ st.current_literal = <<>> THEN st
    ELSE LET r == append_character(st.current_literal[1], char)
             after == IF r.terminated
                      THEN [st EXCEPT !.parsed_args = Append(@, NumericLiteral(r.literal.text)), !.current_literal = <<>>]
                      ELSE [st EXCEPT !.current_literal = <<r.literal>>]
         IN  IF r.character_consumed THEN Continue(after) ELSE after

\* Identifier.append_identifier_character, lines 317-334: zero or one
\* identifiers, the identifier with the character appended if it took it
append_identifier_character(names, char) ==
    LET n == Len(names)
    IN  IF char = "." THEN <<Append(names, <<>>)>>
        ELSE IF IsIdentifier(Append(names[n], char)) THEN <<[names EXCEPT ![n] = Append(@, char)]>>
        ELSE <<>>

\* a scan that emits the identifier in progress and forgets to drop it
ScanIdentifierKept(st, char) ==
    IF st.step # "fall" \/ st.current_identifier = <<>> THEN st
    ELSE LET appended == append_identifier_character(st.current_identifier[1].names, char)
         IN  IF appended # <<>>
             THEN Continue([st EXCEPT !.current_identifier = <<Identifier(appended[1])>>])
             ELSE [st EXCEPT !.parsed_args = Append(@, st.current_identifier[1])]

\* lines 485-495: an identifier is in progress
ScanIdentifier(st, char) ==
    IF st.step # "fall" \/ st.current_identifier = <<>> THEN st
    ELSE LET appended == append_identifier_character(st.current_identifier[1].names, char)
         IN  IF appended # <<>>
             THEN Continue([st EXCEPT !.current_identifier = <<Identifier(appended[1])>>])
             ELSE [st EXCEPT !.parsed_args = Append(@, st.current_identifier[1]), !.current_identifier = <<>>]

\* lines 500-521: the character starts a token, is whitespace, or is an error
ScanStart(st, char) ==
    IF st.step # "fall" THEN st
    ELSE IF string_could_be_operator(<<char>>) THEN Continue([st EXCEPT !.current_operator = <<<<char>>>>])
    ELSE IF IsNumeric(char) THEN Continue([st EXCEPT !.current_literal = <<Literal("NumericLiteral", <<char>>, <<>>)>>])
    ELSE IF IsIdentifier(<<char>>) THEN Continue([st EXCEPT !.current_identifier = <<Identifier(<<<<char>>>>)>>])
    ELSE IF ~IsSpace(char) THEN Raise(st, "ExpressionSyntaxException", "Unexpected character")
    ELSE Continue(st)

\* lines 382-521: the body of the loop, for one character
ScanCharacter(st, char) == ScanStart(ScanIdentifier(ScanLiteral(ScanLiteralMatch(ScanOperator(st, char), char), char), char), char)

\* lines 525-560: the end of the input
FlushTokens(st) ==
    LET op == st.current_operator[1]
        a == IF st.current_operator = <<>> THEN st
             ELSE IF is_valid_operator(op) THEN [st EXCEPT !.parsed_args = Append(@, Operator(op))]
             ELSE IF IsIdentifier(op) THEN [st EXCEPT !.parsed_args = Append(@, Identifier(<<op>>))]
             ELSE Raise(st, "ExpressionSyntaxException", "Unknown operator")
        b == IF a.step = "raise" \/ a.current_identifier = <<>> THEN a
             ELSE [a EXCEPT !.parsed_args = Append(@, a.current_identifier[1])]
        lit == b.current_literal[1]
    IN  IF b.step = "raise" \/ b.current_literal = <<>> THEN b
        ELSE IF ~can_terminate(lit) THEN Raise(b, "ExpressionSyntaxException", "Unexpected end of expression")
        ELSE [b EXCEPT !.parsed_args = Append(@, NumericLiteral(lit.text))]

\* parse_string_to_object_list, lines 382-521: the loop takes one character
ScanChar ==
    /\ pc = "scan"
    /\ position < Len(args)
    /\ LET st == ScanCharacter(Locals(parsed_args, current_identifier, current_literal, current_operator), args[position + 1])
       IN  /\ parsed_args' = st.parsed_args
           /\ current_identifier' = st.current_identifier
           /\ current_literal' = st.current_literal
           /\ current_operator' = st.current_operator
           /\ IF st.step = "raise"
              THEN outcome' = Raises(st.exc, st.msg) /\ pc' = "done" /\ position' = position
              ELSE outcome' = outcome /\ pc' = pc /\ position' = position + 1
    /\ UNCHANGED <<entry, context, args, evalVars, renderVars, registerVars, literalVars>>

\* parse_string_to_object_list, lines 525-560, and parse_string_to_value,
\* lines 576-578: the tokens go to Expression.evaluate
Flush ==
    /\ pc = "scan"
    /\ position = Len(args)
    /\ LET st == FlushTokens(Locals(parsed_args, current_identifier, current_literal, current_operator))
       IN  /\ parsed_args' = st.parsed_args
           /\ IF st.step = "raise"
              THEN outcome' = Raises(st.exc, st.msg) /\ pc' = "done" /\ items' = items
              ELSE outcome' = outcome /\ pc' = "evaluate" /\ items' = st.parsed_args
    /\ UNCHANGED <<entry, context, args, position, current_identifier, current_literal, current_operator, evaluated_items, operator_matches, op_cursor, renderVars, registerVars, literalVars>>

----------------------------------------------------------------------------
(* The calls the model makes *)

\* the characters of the texts enumerated exhaustively
Alphabet == {"1", " ", "+", "=", "x", "a", ".", "(", "$"}

\* expression texts of the documentation and of the cases around them
ExampleTexts == {
    <<"2", " ", "+", " ", "3", " ", "*", " ", "4">>,
    <<"2", " ", "*", " ", "3", " ", "+", " ", "4">>,
    <<"8", " ", "-", " ", "3", " ", "-", " ", "2">>,
    <<"2", " ", "*", " ", "3", " ", "+", " ", "4", " ", "*", " ", "5">>,
    <<"2", " ", "*", "*", " ", "3", " ", "*", "*", " ", "2">>,
    <<"(", "2", " ", "+", " ", "3", ")", " ", "*", " ", "4">>,
    <<"\"", "a", "b", "c", "\"">>,
    <<"1", "2", "3">>,
    <<"1", "2", ".", "5">>,
    <<"[", "1", ",", " ", "2", ",", " ", "3", "]">>,
    <<"a", ".", "b">>,
    <<"m", "i", "s", "s", "i", "n", "g">>,
    <<"x", ".", "y">>,
    <<"x", ".", "z">>,
    <<"z", ".", "y">>,
    <<"1", " ", "+">>,
    <<"+", " ", "1">>,
    <<"1", " ", "+", " ", "*", " ", "2">>,
    <<"\"", "u", "n", "t", "e", "r", "m", "i", "n", "a", "t", "e", "d">>,
    <<"[", "1">>,
    <<"(", "1">>,
    <<"1", " ", "=", "=", " ", "1">>,
    <<"1", " ", "!", "=", " ", "1">>,
    <<"n", "o", "t", " ", "1">>,
    <<"1", " ", "=", "=", " ", "n", "o", "t", " ", "1">>,
    <<"1", " ", "$">>,
    <<"T", "r", "u", "e">>,
    <<"F", "a", "l", "s", "e">>,
    <<"p", "i", " ", "=", "=", " ", "p", "i">>,
    <<"2", " ", "*", " ", "p", "i">>,
    <<"1", " ", "+", " ", "p", "i", " ", "*", " ", "2">>,
    <<"n", "o", "t", " ", "n", "o", "t", " ", "1">>,
    <<"a", "n", "t">>,
    <<"i", "n", "p", "u", "t">>,
    <<"o", "r", "d", "e", "r">>,
    <<"p", "i", "n">>,
    <<"1", " ", "1">>}

EnumeratedTexts == UNION {[1..n -> Alphabet] : n \in 0..MaxLen}

EmptyContext == PyDict(<<>>)
\* {'a': {'b': 5}}
DocContext == PyDict(<<<<<<"a">>, PyDict(<<<<<<"b">>, PyInt(5)>>>>)>>>>)
\* {'x': {'y': 5, 'x': 1}, 'z': 3, 'a': 1}
NestedContext == PyDict(<<<<<<"x">>, PyDict(<<<<<<"y">>, PyInt(5)>>, <<<<"x">>, PyInt(1)>>>>)>>, <<<<"z">>, PyInt(3)>>, <<<<"a">>, PyInt(1)>>>>)

Contexts == {EmptyContext, DocContext, NestedContext}

\* the operands and the binary operators of the enumerated token lists
OperandTokens == {NumericLiteral(<<"2">>), NumericLiteral(<<"3">>)}
BinaryOperatorTokens == {Operator(<<"+">>), Operator(<<"-">>), Operator(<<"*">>), Operator(<<"=", "=">>)}
OtherTokens == {Operator(<<"n", "o", "t">>), Operator(<<"p", "i">>), Identifier(<<<<"z">>>>), Identifier(<<<<"m">>>>)}

\* operand, operator, operand, ..., operand with n operators
Alternations(n) ==
    {[k \in 1..(2 * n + 1) |-> IF k % 2 = 1 THEN operands[(k + 1) \div 2] ELSE operators[k \div 2]] :
        operands \in [1..(n + 1) -> OperandTokens], operators \in [1..n -> BinaryOperatorTokens]}

\* an alternation whose last operand, or whose first operand, is missing
Dangling(n) ==
    {SubSeq(s, 1, Len(s) - 1) : s \in Alternations(n)} \cup {SubSeq(s, 2, Len(s)) : s \in Alternations(n)}

EnumeratedItems ==
    UNION {Alternations(n) : n \in 0..MaxOps}
    \cup UNION {Dangling(n) : n \in 1..MaxOps}
    \cup UNION {[1..n -> OperandTokens \cup BinaryOperatorTokens \cup OtherTokens] : n \in 0..MaxItems}

NoParse == args = <<>> /\ position = 0 /\ parsed_args = <<>> /\ current_identifier = <<>> /\ current_literal = <<>> /\ current_operator = <<>>
NoEval == evaluated_items = <<>> /\ operator_matches = <<>> /\ op_cursor = 0
NoRender == template_str = <<>> /\ match_index = 0 /\ preprocessed_template_str = <<>> /\ next_start_index = 0 /\ opened_block = <<>>
NoRegister == inline_tag_map = <<>> /\ block_tag_map = <<>> /\ registration = <<>>
NoLiteral == literal_syntax_map = RegisteredLiterals

\* parse_string_to_value(context, args) is called
InitParse ==
    /\ entry = "parse_string_to_value"
    /\ \/ args \in ExampleTexts /\ context \in Contexts
       \/ args \in EnumeratedTexts /\ context = NestedContext
    /\ position = 0 /\ parsed_args = <<>> /\ current_identifier = <<>> /\ current_literal = <<>> /\ current_operator = <<>>
    /\ items = <<>> /\ NoEval /\ NoRender /\ NoRegister /\ NoLiteral
    /\ pc = "scan"
    /\ outcome = Running

\* Expression(items).evaluate(context) is called
InitEvaluate ==
    /\ entry = "Expression.evaluate"
    /\ items \in EnumeratedItems
    /\ context = NestedContext
    /\ NoParse /\ NoEval /\ NoRender /\ NoRegister /\ NoLiteral
    /\ pc = "evaluate"
    /\ outcome = Running

\* the contents of the block the if/elif handler is called with
BlockContents == <<"A">>

\* a handler that takes every truthy value for True
tag_conditional_block_truthy(conditional_output, block_contents) ==
    IF Truthy(conditional_output) \/ conditional_output = PyNone THEN Returns(PyStr(block_contents)) ELSE Returns(PyNone)

\* template_tag.py, conditional_block, lines 150-153: what the handler
\* returns, the value of its argument expression given
tag_conditional_block(conditional_output, block_contents) ==
    IF conditional_output = PyBool(TRUE) \/ conditional_output = PyNone THEN Returns(PyStr(block_contents)) ELSE Returns(PyNone)

\* template_tag.py, conditional_block(context, block_contents, args) is
\* called: it starts with parse_string_to_value(context, args), line 148
InitConditional ==
    /\ entry = "conditional_block"
    /\ \/ args \in ExampleTexts /\ context \in Contexts
       \/ args \in EnumeratedTexts /\ context = NestedContext
    /\ position = 0 /\ parsed_args = <<>> /\ current_identifier = <<>> /\ current_literal = <<>> /\ current_operator = <<>>
    /\ items = <<>> /\ NoEval /\ NoRender /\ NoRegister /\ NoLiteral
    /\ pc = "scan"
    /\ outcome = Running

\* template_tag.py, conditional_block, lines 148-153: the argument
\* expression has its value, or raised
ConditionalBlock ==
    /\ entry = "conditional_block"
    /\ pc = "done"
    /\ outcome' = IF outcome.exc # "" THEN outcome ELSE tag_conditional_block(outcome.value, BlockContents)
    /\ pc' = "returned"
    /\ UNCHANGED <<entry, context, parseVars, evalVars, renderVars, registerVars, literalVars>>

Init == InitParse \/ InitEvaluate \/ InitConditional

Next ==
    \/ ScanChar
    \/ Flush
    \/ ExpressionEvaluate
    \/ ParseTreeStart
    \/ ParseTreeApplyOperator
    \/ ParseTreeFinish
    \/ ConditionalBlock

Spec == Init /\ [][Next]_vars

TypeOK ==
    /\ pc \in {"scan", "evaluate", "parse_tree", "loop", "preprocess", "format", "register", "literal", "call", "append", "list", "done", "returned"}
    /\ pc \in {"register", "literal"} \/ (pc \in {"done", "returned"}) = (outcome # Running)

----------------------------------------------------------------------------
(* Properties of the expression parser *)

\* 2 + 3 * 4
Text2Plus3Times4 == <<"2", " ", "+", " ", "3", " ", "*", " ", "4">>
\* 2 * 3 + 4
Text2Times3Plus4 == <<"2", " ", "*", " ", "3", " ", "+", " ", "4">>
\* 8 - 3 - 2
Text8Minus3Minus2 == <<"8", " ", "-", " ", "3", " ", "-", " ", "2">>
\* (2 + 3) * 4
TextParenthesised == <<"(", "2", " ", "+", " ", "3", ")", " ", "*", " ", "4">>
\* "abc"
TextString == <<"\"", "a", "b", "c", "\"">>
\* 123
TextInt == <<"1", "2", "3">>
\* 12.5
TextFloat == <<"1", "2", ".", "5">>
\* [1, 2, 3]
TextList == <<"[", "1", ",", " ", "2", ",", " ", "3", "]">>
\* a.b
TextDotted == <<"a", ".", "b">>
\* missing
TextMissing == <<"m", "i", "s", "s", "i", "n", "g">>
\* 1 +
TextNoRight == <<"1", " ", "+">>
\* + 1
TextNoLeft == <<"+", " ", "1">>
\* 1 + * 2
TextAdjacent == <<"1", " ", "+", " ", "*", " ", "2">>
\* "unterminated
TextUnterminated == <<"\"", "u", "n", "t", "e", "r", "m", "i", "n", "a", "t", "e", "d">>

Done == pc = "done"
Parsed == pc = "done" /\ entry = "parse_string_to_value"

BinarySymbols == {<<"+">>, <<"-">>, <<"*">>, <<"*", "*">>, <<"=", "=">>, <<"!", "=">>}
IsOperandToken(token) == token.cls = "NumericLiteral" /\ IsIntText(token.text)
IsBinaryToken(token) == token.cls = "Operator" /\ token.symbol \in BinarySymbols

\* operand, operator, operand, ..., from position `first`, which is an
\* operand if operand_first and an operator otherwise
Alternates(its, operand_first) ==
    \A k \in 1..Len(its) : IF (k % 2 = 1) = operand_first THEN IsOperandToken(its[k]) ELSE IsBinaryToken(its[k])

\* values separated by binary operators, one operator at least
IsAlternation(its) == Len(its) >= 3 /\ Len(its) % 2 = 1 /\ Alternates(its, TRUE)

\* the values and the operators of an alternation
ValuesOf(its) ==
    [k \in 1..Len(its) |-> IF its[k].cls = "Operator" THEN OperatorItem(its[k].symbol) ELSE PyInt(DigitsValue(Strip(its[k].text)))]

RECURSIVE Reference(_)
\* the value of values separated by binary operators: the leftmost operator
\* of the highest precedence is applied to its two neighbours, and so on
Reference(seq) ==
    IF Len(seq) = 1 THEN Returns(seq[1])
    ELSE LET at == {k \in 1..Len(seq) : seq[k].t = "Operator"}
             Before(i, j) == precedence(seq[i].op) > precedence(seq[j].op) \/ (precedence(seq[i].op) = precedence(seq[j].op) /\ i <= j)
             k == CHOOSE i \in at : \A j \in at : Before(i, j)
             called == OperatorCall(seq[k].op, <<seq[k - 1], seq[k + 1]>>)
         IN  IF called.exc # "" THEN called
             ELSE Reference(SubSeq(seq, 1, k - 2) \o <<called.value>> \o SubSeq(seq, k + 2, Len(seq)))

\* C1: an expression of values separated by binary operators evaluates to
\* what applying the operators by descending precedence, left to right among
\* equals, each to its current neighbours, gives; '2 + 3 * 4' is 14,
\* '2 * 3 + 4' is 10 and '8 - 3 - 2' is 3.
C1_PrecedenceOrder ==
    /\ Done /\ IsAlternation(items) => outcome = Reference(ValuesOf(items))
    /\ Done /\ args = Text2Plus3Times4 => outcome = Returns(PyInt(14))
    /\ Done /\ args = Text2Times3Plus4 => outcome = Returns(PyInt(10))
    /\ Done /\ args = Text8Minus3Minus2 => outcome = Returns(PyInt(3))

C1_Witness == Done /\ args = Text8Minus3Minus2 /\ IsAlternation(items) /\ outcome = Returns(PyInt(3))

RECURSIVE SplitDots(_)
\* text.split('.')
SplitDots(text) ==
    IF DotPositions(text) = {} THEN <<text>>
    ELSE LET k == CHOOSE i \in DotPositions(text) : \A j \in DotPositions(text) : i <= j
         IN  <<SubSeq(text, 1, k - 1)>> \o SplitDots(SubSeq(text, k + 1, Len(text)))

\* identifiers joined by dots, none of them an operator's keyword
IsDottedChain(text) ==
    \A k \in 1..Len(SplitDots(text)) : IsIdentifier(SplitDots(text)[k]) /\ SplitDots(text)[k] \notin VALID_OPERATOR_CHARS

RECURSIVE Lookup(_, _)
\* the value reached by looking up each segment in turn, None if one is absent
Lookup(value, names) ==
    IF value.t # "dict" \/ DictGet(value.d, names[1]) = <<>> THEN PyNone
    ELSE IF Len(names) = 1 THEN DictGet(value.d, names[1])[1]
    ELSE Lookup(DictGet(value.d, names[1])[1], Tail(names))

\* C2: evaluating a dotted identifier chain returns the value reached by
\* looking up each segment in turn, None when a segment is absent, and raises
\* nothing; with {'a': {'b': 5}}, 'a.b' is 5 and 'missing' is None.
C2_DottedLookup ==
    Parsed /\ IsDottedChain(args) => outcome = Returns(Lookup(context, SplitDots(args)))

\* C3: '(2 + 3) * 4' evaluates to 20, the parenthesised part being evaluated
\* as a unit before the operators around it.
C3_Parenthesised ==
    Parsed /\ args = TextParenthesised => outcome = Returns(PyInt(20))

\* C4: a literal's text evaluates to the value it denotes: a quoted string
\* to its contents, digits to an int, digits with a fraction to a float, a
\* bracketed list to the list of its items.
C4_LiteralRoundTrip ==
    /\ Parsed /\ args = TextString => outcome = Returns(PyStr(<<"a", "b", "c">>))
    /\ Parsed /\ Len(args) > 0 /\ AllDigits(args) => outcome = Returns(PyInt(DigitsValue(args)))
    /\ Parsed /\ args = TextFloat => outcome = Returns(PyFloat(125, 1))
    /\ Parsed /\ args = TextList => outcome = Returns(PyList(<<PyInt(1), PyInt(2), PyInt(3)>>))

Count(text, char) == Cardinality({k \in 1..Len(text) : text[k] = char})

\* a malformed text: an unexpected character, unbalanced brackets or an
\* unterminated quote in the text, a dangling operator or two adjacent
\* operators among its tokens
Malformed ==
    \/ Count(args, "$") > 0
    \/ Count(args, "(") # Count(args, ")")
    \/ Count(args, "[") # Count(args, "]")
    \/ Count(args, "\"") % 2 = 1
    \/ Len(items) >= 2 /\ (IsBinaryToken(items[1]) \/ IsBinaryToken(items[Len(items)]))
    \/ \E k \in 1..(Len(items) - 1) : IsBinaryToken(items[k]) /\ IsBinaryToken(items[k + 1])

DocumentedParseErrors == {"ExpressionSyntaxException", "UnknownOperatorException", "UnknownLiteralTypeException"}

\* C5: a malformed expression ends by raising one of the documented parse
\* errors, never another exception.
C5_DocumentedErrors ==
    Parsed /\ Malformed => outcome.exc \in DocumentedParseErrors

\* an alternation without its last operand (right) or its first one (left)
NoRightOperand(its) == Len(its) >= 2 /\ Len(its) % 2 = 0 /\ Alternates(its, TRUE)
NoLeftOperand(its) == Len(its) >= 2 /\ Len(its) % 2 = 0 /\ Alternates(its, FALSE)

OpenAtEnd(text) ==
    /\ Len(text) > 0
    /\ text[1] \in DOMAIN LITERAL_SYNTAX_MAP
    /\ Count(Tail(text), LITERAL_SYNTAX_MAP[text[1]].end_char[1]) = 0

\* C7: the input ending in a literal that needs an end character raises
\* ExpressionSyntaxException 'Unexpected end of expression'; ending in a
\* numeric literal, it has that literal as its last token.
C7_UnexpectedEnd ==
    /\ Parsed /\ OpenAtEnd(args) => outcome = Raises("ExpressionSyntaxException", "Unexpected end of expression")
    /\ Parsed /\ Len(args) > 0 /\ AllDigits(args) => Len(items) > 0 /\ items[Len(items)] = NumericLiteral(args)

----------------------------------------------------------------------------
(* template_renderer.py: strings, the tag pattern and the tag tables *)

SetMin(S) == CHOOSE i \in S : \A j \in S : i <= j
SetMax(S) == CHOOSE i \in S : \A j \in S : i >= j

\* s[a:b], indices from 0
Slice(s, a, b) == SubSeq(s, a + 1, IF b > Len(s) THEN Len(s) ELSE b)

RECURSIVE Split(_, _)
\* s.split(sep), sep one character
Split(s, sep) ==
    LET at == {k \in 1..Len(s) : s[k] = sep}
    IN  IF at = {} THEN <<s>>
        ELSE <<SubSeq(s, 1, SetMin(at) - 1)>> \o Split(SubSeq(s, SetMin(at) + 1, Len(s)), sep)

RECURSIVE Concat(_)
\* ''.join(strings)
Concat(strings) == IF Len(strings) = 0 THEN <<>> ELSE strings[1] \o Concat(Tail(strings))

\* the positions j of a "%}" that can end a tag starting with "{%" at i:
\* one character at least in between, and no newline
TagEnds(s, i) ==
    {j \in (i + 3)..(Len(s) - 1) : s[j] = "%" /\ s[j + 1] = "}" /\ \A k \in (i + 2)..(j - 1) : s[k] # "\n"}

RECURSIVE finditer(_, _)
\* re.finditer(_LOGIC_TAG_SYNTAX, s) with _LOGIC_TAG_SYNTAX = '{%(.+)%}',
\* searching from position `from`: the spans of the matches, indices from
\* 0.  `.+` is greedy: a match runs to the last "%}" of its line.
finditer(s, from) ==
    LET starts == {i \in from..(Len(s) - 1) : s[i] = "{" /\ s[i + 1] = "%" /\ TagEnds(s, i) # {}}
    IN  IF starts = {} THEN <<>>
        ELSE <<[start |-> SetMin(starts) - 1, end |-> SetMax(TagEnds(s, SetMin(starts))) + 1]>>
             \o finditer(s, SetMax(TagEnds(s, SetMin(starts))) + 2)

\* _deconstruct_tag: tag_match.group(1).strip().split(' ')
deconstruct_tag(s, tag_match) ==
    LET syntax_contents == Split(Strip(SubSeq(s, tag_match.start + 3, tag_match.end - 2)), " ")
    IN  [func_name |-> syntax_contents[1], args |-> Tail(syntax_contents)]

TAG_IF == <<"i", "f">>
TAG_ELIF == <<"e", "l", "i", "f">>
TAG_ELSE == <<"e", "l", "s", "e">>
TAG_ENDIF == <<"e", "n", "d", "i", "f">>
TAG_FOR == <<"f", "o", "r">>
TAG_ENDFOR == <<"e", "n", "d", "f", "o", "r">>
TAG_INCLUDE == <<"i", "n", "c", "l", "u", "d", "e">>

\* _OPERATOR_MAP
OPERATOR_MAP == {<<"=", "=">>, <<"!", "=">>, <<">">>, <<">", "=">>, <<"<">>, <<"<", "=">>}

\* _RENDER_BLOCK_TAGS: args_len is a sequence of zero or one lengths
RENDER_BLOCK_TAGS ==
    [tag \in {TAG_IF, TAG_FOR} |->
        IF tag = TAG_IF
        THEN [sub_tags |-> {TAG_ELIF, TAG_ELSE}, args_len |-> <<3>>, end_tag |-> TAG_ENDIF, tag_function |-> "conditional_block"]
        ELSE [sub_tags |-> {}, args_len |-> <<3>>, end_tag |-> TAG_ENDFOR, tag_function |-> "for_block"]]

\* _RENDER_BLOCK_TAGS['if']['sub_tags']
SUB_TAGS == [tag \in {TAG_ELIF, TAG_ELSE} |-> IF tag = TAG_ELIF THEN [args_len |-> <<3>>] ELSE [args_len |-> <<0>>]]

\* _RENDER_INLINE_TAGS
RENDER_INLINE_TAGS == [tag \in {TAG_INCLUDE} |-> [args_len |-> <<1>>, tag_function |-> "include"]]

\* the template files Template.read finds, name and text: 'p/t' holds 'I'
\* and 's' holds '{% include s %}', a template that includes itself
TemplateFiles == [name \in {<<"p", "/", "t">>, <<"s">>} |-> IF name = <<"s">> THEN <<"{", "%", " ", "i", "n", "c", "l", "u", "d", "e", " ", "s", " ", "%", "}">> ELSE <<"I">>]

\* a result of rendering: the exception raised, or the string
Rendered(str) == [exc |-> "", msg |-> "", str |-> str]
RenderRaises(e, m) == [exc |-> e, msg |-> m, str |-> <<>>]

RECURSIVE DigitsOf(_)
\* str(n) for n >= 0
DigitsOf(n) ==
    LET digit == CHOOSE c \in Digits : DigitValue(c) = n % 10
    IN  IF n < 10 THEN <<digit>> ELSE Append(DigitsOf(n \div 10), digit)

RECURSIVE StrOf(_)
\* str(value), and repr(value) for the items of a list
StrOf(value) ==
    CASE value.t = "int" -> IF value.i < 0 THEN <<"-">> \o DigitsOf(-value.i) ELSE DigitsOf(value.i)
      [] value.t = "bool" -> IF value.b THEN <<"T", "r", "u", "e">> ELSE <<"F", "a", "l", "s", "e">>
      [] value.t = "NoneType" -> <<"N", "o", "n", "e">>
      [] value.t = "str" -> value.s
      [] value.t = "list" ->
            <<"[">> \o Concat([k \in 1..Len(value.l) |->
                (IF k > 1 THEN <<",", " ">> ELSE <<>>)
                \o (IF value.l[k].t = "str" THEN <<"'">> \o value.l[k].s \o <<"'">> ELSE StrOf(value.l[k]))]) \o <<"]">>

RECURSIVE Format(_, _)
\* s.format(**context) for replacement fields that are plain names: "{{" and
\* "}}" are braces, "{name}" is str(context[name]), KeyError without the
\* name, ValueError for a brace on its own
Format(s, ctx) ==
    IF Len(s) = 0 THEN Rendered(<<>>)
    ELSE IF s[1] \notin {"{", "}"}
    THEN LET rest == Format(Tail(s), ctx)
         IN  IF rest.exc # "" THEN rest ELSE Rendered(<<s[1]>> \o rest.str)
    ELSE IF Len(s) >= 2 /\ s[2] = s[1]
    THEN LET rest == Format(SubSeq(s, 3, Len(s)), ctx)
         IN  IF rest.exc # "" THEN rest ELSE Rendered(<<s[1]>> \o rest.str)
    ELSE IF s[1] = "}" THEN RenderRaises("ValueError", "Single '}' encountered in format string")
    ELSE LET closes == {k \in 2..Len(s) : s[k] = "}"}
             opens == {k \in 2..Len(s) : s[k] = "{"}
         IN  IF closes = {} THEN RenderRaises("ValueError", "expected '}' before end of string")
             ELSE IF opens # {} /\ SetMin(opens) < SetMin(closes) THEN RenderRaises("ValueError", "unexpected '{' in field name")
             ELSE LET name == SubSeq(s, 2, SetMin(closes) - 1)
                      value == DictGet(ctx.d, name)
                      rest == Format(SubSeq(s, SetMin(closes) + 1, Len(s)), ctx)
                  IN  IF name = <<>> \/ AllDigits(name) THEN RenderRaises("IndexError", "Replacement index out of range")
                      ELSE IF value = <<>> THEN RenderRaises("KeyError", "name")
                      ELSE IF rest.exc # "" THEN rest
                      ELSE Rendered(StrOf(value[1]) \o rest.str)

----------------------------------------------------------------------------
(* template_renderer.py: the tag functions and _TagLogicBlock *)

\* validate_args_len (template_tag.py): the exception raised, or none
validate_args_len(tag_name, tag_args, expected_len) ==
    IF Len(tag_args) > expected_len THEN RenderRaises("TooManyTagArgumentsException", "Too many arguments passed")
    ELSE IF Len(tag_args) < expected_len THEN RenderRaises("MissingTagArgumentsException", "Missing arguments passed")
    ELSE Rendered(<<>>)

\* _try_validate_args_len; sub_tag is a sequence of zero or one names
try_validate_args_len(tag_name, tag_args, is_block, sub_tag) ==
    LET tag_data == IF is_block THEN RENDER_BLOCK_TAGS ELSE RENDER_INLINE_TAGS
    IN  IF tag_name \notin DOMAIN tag_data THEN RenderRaises("UnknownTagException", "Unknown tag")
        ELSE IF sub_tag # <<>> /\ sub_tag[1] \notin tag_data[tag_name].sub_tags THEN RenderRaises("UnknownTagException", "Unknown sub tag")
        ELSE LET expected_args_len == IF sub_tag # <<>> THEN SUB_TAGS[sub_tag[1]].args_len ELSE tag_data[tag_name].args_len
             IN  IF expected_args_len = <<>> THEN Rendered(<<>>)
                 ELSE validate_args_len(IF sub_tag # <<>> THEN sub_tag[1] ELSE tag_name, tag_args, expected_args_len[1])

\* _get_tag_function: the exception raised, or the function's name in str
get_tag_function(tag_name, is_block, sub_tag) ==
    LET tag_data == IF is_block THEN RENDER_BLOCK_TAGS ELSE RENDER_INLINE_TAGS
    IN  IF tag_name \notin DOMAIN tag_data THEN RenderRaises("UnknownTagException", "Unknown tag")
        ELSE IF sub_tag # <<>> /\ sub_tag[1] \notin tag_data[tag_name].sub_tags THEN RenderRaises("UnknownTagException", "Unknown sub tag")
        ELSE Rendered(tag_data[tag_name].tag_function)

\* parse_args: each argument that is a key of the context becomes its value
parse_args(ctx, tag_args) ==
    [k \in 1..Len(tag_args) |-> IF DictGet(ctx.d, tag_args[k]) # <<>> THEN DictGet(ctx.d, tag_args[k])[1] ELSE PyStr(tag_args[k])]

\* an include that renders what it includes, leaving out the tags in it
include_rendered(ctx, parsed) ==
    IF parsed[1].t # "str" THEN RenderRaises("TypeError", "expected str, bytes or os.PathLike object")
    ELSE IF parsed[1].s \notin DOMAIN TemplateFiles THEN Rendered(<<>>)
    ELSE LET text == TemplateFiles[parsed[1].s]
             tag_matches == finditer(text, 1)
         IN  IF tag_matches = <<>> THEN Rendered(text)
             ELSE Rendered(Slice(text, 0, tag_matches[1].start) \o Slice(text, tag_matches[Len(tag_matches)].end, Len(text)))

\* include: Template(args[0]).template_str, '' when the file is not found
include(ctx, parsed) ==
    IF parsed[1].t # "str" THEN RenderRaises("TypeError", "expected str, bytes or os.PathLike object")
    ELSE IF parsed[1].s \in DOMAIN TemplateFiles THEN Rendered(TemplateFiles[parsed[1].s])
    ELSE Rendered(<<>>)

\* what a block's tag function returns: an exception, None, or a string
TagOutput(str) == [exc |-> "", msg |-> "", none |-> FALSE, str |-> str]
NoOutput == [exc |-> "", msg |-> "", none |-> TRUE, str |-> <<>>]
TagRaises(e, m) == [exc |-> e, msg |-> m, none |-> FALSE, str |-> <<>>]

\* _OPERATOR_MAP[operator](left, right), on the values the model compares
Compare(operator, left, right) ==
    CASE operator = <<"=", "=">> -> PyEq(left, right)
      [] operator = <<"!", "=">> -> ~PyEq(left, right)
      [] operator = <<">">> /\ IsIntLike(left) /\ IsIntLike(right) -> IntOf(left) > IntOf(right)
      [] operator = <<">", "=">> /\ IsIntLike(left) /\ IsIntLike(right) -> IntOf(left) >= IntOf(right)
      [] operator = <<"<">> /\ IsIntLike(left) /\ IsIntLike(right) -> IntOf(left) < IntOf(right)
      [] operator = <<"<", "=">> /\ IsIntLike(left) /\ IsIntLike(right) -> IntOf(left) <= IntOf(right)

\* conditional_block, lines 441-461
conditional_block(ctx, block_contents, parsed) ==
    IF Len(parsed) = 0 THEN TagOutput(block_contents)
    ELSE IF parsed[2].t # "str" \/ parsed[2].s \notin OPERATOR_MAP
    THEN TagRaises("UnknownTagConditionalExpressionException", "Unknown operator")
    ELSE IF Compare(parsed[2].s, parsed[1], parsed[3]) THEN TagOutput(block_contents)
    ELSE NoOutput

\* {**context, key: value}
DictSet(ctx, key, value) ==
    IF DictGet(ctx.d, key) = <<>> THEN PyDict(Append(ctx.d, <<key, value>>))
    ELSE PyDict([k \in 1..Len(ctx.d) |-> IF ctx.d[k][1] = key THEN <<key, value>> ELSE ctx.d[k]])

\* iter(iterable): the exception raised, or the items
Iterate(iterable) ==
    CASE iterable.t = "list" -> [exc |-> "", msg |-> "", items |-> iterable.l]
      [] iterable.t = "str" -> [exc |-> "", msg |-> "", items |-> [k \in 1..Len(iterable.s) |-> PyStr(<<iterable.s[k]>>)]]
      [] iterable.t = "dict" -> [exc |-> "", msg |-> "", items |-> [k \in 1..Len(iterable.d) |-> PyStr(iterable.d[k][1])]]
      [] iterable.t \in {"int", "bool", "float", "NoneType"} -> [exc |-> "TypeError", msg |-> "object is not iterable", items |-> <<>>]

RECURSIVE preprocess(_, _, _, _)
RECURSIVE TagLogicBlock_render(_, _, _)
RECURSIVE for_block_from(_, _, _, _, _)

\* TemplateRenderer._render_raw: the whole of _preprocess on a string. The
\* nested renderers are given their string by Template.set_template_str,
\* which only stores it.
render_raw(s, ctx) ==
    preprocess(s, ctx, [preprocessed_template_str |-> <<>>, next_start_index |-> 0, opened_block |-> <<>>, exc |-> "", msg |-> ""], finditer(s, 1))

\* TemplateRenderer.render, line 369, on what _render_raw returned
render_format(raw, ctx) == IF raw.exc # "" THEN raw ELSE Format(raw.str, ctx)

\* TemplateRenderer.render
render(s, ctx) == render_format(render_raw(s, ctx), ctx)

\* a loop that binds its variable in the mapping of the caller
loop_context_in_place(ctx, identifier, item) ==
    [inner |-> IF identifier.t = "str" THEN DictSet(ctx, identifier.s, item) ELSE ctx,
     outer |-> IF identifier.t = "str" THEN DictSet(ctx, identifier.s, item) ELSE ctx]

\* for_block, lines 490-493: {**context, identifier: item} is a new dict.
\* `inner` is the mapping the body is rendered with, `outer` the mapping of
\* the caller after it.
loop_context(ctx, identifier, item) ==
    [inner |-> IF identifier.t = "str" THEN DictSet(ctx, identifier.s, item) ELSE ctx,
     outer |-> ctx]

\* for_block, line 490: the rendering `once` of the body is added to the
\* output, and the loop goes on
for_block_next(ctx, block_contents, identifier, iterable, output, once) ==
    IF once.exc # "" THEN TagRaises(once.exc, once.msg)
    ELSE for_block_from(ctx, block_contents, identifier, Tail(iterable), output \o once.str)

\* for_block, lines 484-495: the loop over the items still to render, the
\* output so far given. The key of the copy of the context is args[0] as
\* parse_args left it: the value of the loop variable's name in the context
\* when the context has that name. A key that is no string is reached by no
\* tag argument and by no field name.
for_block_from(ctx, block_contents, identifier, iterable, output) ==
    IF Len(iterable) = 0 THEN TagOutput(output)
    ELSE IF identifier.t \in {"list", "dict"} THEN TagRaises("TypeError", "unhashable type")
    ELSE for_block_next(ctx, block_contents, identifier, iterable, output,
                        render(block_contents, loop_context(ctx, identifier, iterable[1]).inner))

\* for_block, line 484: iter(iterable)
for_block_over(ctx, block_contents, identifier, iterable) ==
    IF iterable.exc # "" THEN TagRaises(iterable.exc, iterable.msg)
    ELSE for_block_from(ctx, block_contents, identifier, iterable.items, <<>>)

\* for_block, lines 479-495
for_block(ctx, block_contents, parsed) == for_block_over(ctx, block_contents, parsed[1], Iterate(parsed[3]))

RECURSIVE for_block_context_from(_, _, _)
\* for_block, lines 484-495: the mapping of the caller after the loop over
\* the items still to render
for_block_context_from(ctx, identifier, iterable) ==
    IF Len(iterable) = 0 \/ identifier.t \in {"list", "dict"} THEN ctx
    ELSE for_block_context_from(loop_context(ctx, identifier, iterable[1]).outer, identifier, Tail(iterable))

\* for_block, lines 479-495: the mapping of the caller after the call
for_block_context(ctx, parsed) ==
    IF Iterate(parsed[3]).exc # "" THEN ctx
    ELSE for_block_context_from(ctx, parsed[1], Iterate(parsed[3]).items)

\* _TagLogicBlock.__init__
TagLogicBlock(s, block_start_match) ==
    [block_start_match |-> block_start_match, block_close_match |-> <<>>, sub_tag_matche_list |-> <<>>,
     block_close_tag_depth |-> 0, current_sub_tag_index |-> -1, tag |-> deconstruct_tag(s, block_start_match).func_name]

\* a try_add_sub_tag that forgets the depth of the nested blocks
try_add_sub_tag_any_depth(block, s, tag_match) ==
    IF deconstruct_tag(s, tag_match).func_name \in RENDER_BLOCK_TAGS[block.tag].sub_tags
    THEN [added |-> TRUE, block |-> [block EXCEPT !.sub_tag_matche_list = Append(@, tag_match)]]
    ELSE [added |-> FALSE, block |-> block]

\* _TagLogicBlock.try_add_sub_tag: whether the tag was added, and the block
try_add_sub_tag(block, s, tag_match) ==
    IF block.block_close_tag_depth > 0 THEN [added |-> FALSE, block |-> block]
    ELSE IF deconstruct_tag(s, tag_match).func_name \in RENDER_BLOCK_TAGS[block.tag].sub_tags
    THEN [added |-> TRUE, block |-> [block EXCEPT !.sub_tag_matche_list = Append(@, tag_match)]]
    ELSE [added |-> FALSE, block |-> block]

\* a check of the closing tag that forgets the depth of the nested blocks
check_closing_tag_any_depth(block, s, tag_match) ==
    IF deconstruct_tag(s, tag_match).func_name = RENDER_BLOCK_TAGS[block.tag].end_tag
    THEN [closing |-> TRUE, block |-> [block EXCEPT !.block_close_match = <<tag_match>>]]
    ELSE [closing |-> FALSE, block |-> block]

\* _TagLogicBlock.check_closing_tag: whether the tag closes the block, and
\* the block
check_closing_tag(block, s, tag_match) ==
    LET tag_name == deconstruct_tag(s, tag_match).func_name
        end_tag == RENDER_BLOCK_TAGS[block.tag].end_tag
    IN  IF tag_name = end_tag
        THEN IF block.block_close_tag_depth > 0
             THEN [closing |-> FALSE, block |-> [block EXCEPT !.block_close_tag_depth = @ - 1]]
             ELSE [closing |-> TRUE, block |-> [block EXCEPT !.block_close_match = <<tag_match>>]]
        ELSE IF tag_name \in DOMAIN RENDER_BLOCK_TAGS /\ RENDER_BLOCK_TAGS[tag_name].end_tag = end_tag
        THEN [closing |-> FALSE, block |-> [block EXCEPT !.block_close_tag_depth = @ + 1]]
        ELSE [closing |-> FALSE, block |-> block]

\* what _TagLogicBlock.render gives: an exception, or the rendered block
\* and the end index of the block
BlockRaises(r) == [exc |-> r.exc, msg |-> r.msg, str |-> <<>>, end |-> 0]

\* _TagLogicBlock.render, lines 204-211: what the nested renderer returned
render_nested(block, nested_raw_contents) ==
    IF nested_raw_contents.exc # "" THEN BlockRaises(nested_raw_contents)
    ELSE [exc |-> "", msg |-> "", str |-> nested_raw_contents.str, end |-> block.block_close_match[1].end]

\* _TagLogicBlock.render, lines 194-211: the output of the tag function
render_output(block, s, ctx, tag_output) ==
    IF tag_output.exc # "" THEN BlockRaises(tag_output)
    ELSE IF tag_output.none /\ Len(block.sub_tag_matche_list) > 0
    THEN TagLogicBlock_render([block EXCEPT !.current_sub_tag_index = @ + 1], s, ctx)
    ELSE render_nested(block, render_raw(IF tag_output.none THEN <<>> ELSE tag_output.str, ctx))

\* _TagLogicBlock.render
TagLogicBlock_render(block, s, ctx) ==
    LET USING_SUB_TAG == block.current_sub_tag_index > -1
        NEXT_SUB_TAG_INDEX == block.current_sub_tag_index + 1
        SUB_TAG_LEN == Len(block.sub_tag_matche_list)
        CURRENT_RENDER_MATCH == IF USING_SUB_TAG THEN block.sub_tag_matche_list[block.current_sub_tag_index + 1] ELSE block.block_start_match
        end_tag_start == IF SUB_TAG_LEN > 0 /\ SUB_TAG_LEN > NEXT_SUB_TAG_INDEX
                         THEN block.sub_tag_matche_list[NEXT_SUB_TAG_INDEX + 1].start
                         ELSE block.block_close_match[1].start
        block_contents == Strip(Slice(s, CURRENT_RENDER_MATCH.end, end_tag_start))
        tag == deconstruct_tag(s, CURRENT_RENDER_MATCH)
        parsed == parse_args(ctx, tag.args)
        sub_tag == IF USING_SUB_TAG THEN <<tag.func_name>> ELSE <<>>
        tag_function == get_tag_function(block.tag, TRUE, sub_tag)
        valid == try_validate_args_len(block.tag, parsed, TRUE, sub_tag)
    IN  IF USING_SUB_TAG /\ block.current_sub_tag_index >= SUB_TAG_LEN
        THEN [exc |-> "IndexError", msg |-> "list index out of range", str |-> <<>>, end |-> 0]
        ELSE IF tag_function.exc # "" THEN BlockRaises(tag_function)
        ELSE IF valid.exc # "" THEN BlockRaises(valid)
        ELSE render_output(block, s, ctx, IF tag_function.str = "for_block" THEN for_block(ctx, block_contents, parsed)
                                          ELSE conditional_block(ctx, block_contents, parsed))

\* _preprocess, lines 310-329: a tag seen while no block is open
preprocess_tag(st, s, ctx, tag_match) ==
    LET tag == deconstruct_tag(s, tag_match)
        parsed == parse_args(ctx, tag.args)
        tag_function == get_tag_function(tag.func_name, FALSE, <<>>)
        valid == try_validate_args_len(tag.func_name, parsed, FALSE, <<>>)
        included == include(ctx, parsed)
        raise(r) == [st EXCEPT !.exc = r.exc, !.msg = r.msg]
    IN  IF tag.func_name \in DOMAIN RENDER_BLOCK_TAGS THEN [st EXCEPT !.opened_block = <<TagLogicBlock(s, tag_match)>>]
        ELSE IF tag.func_name \notin DOMAIN RENDER_INLINE_TAGS THEN raise(RenderRaises("UnknownTagException", "Unknown tag"))
        ELSE IF tag_function.exc # "" THEN raise(tag_function)
        ELSE IF valid.exc # "" THEN raise(valid)
        ELSE IF included.exc # "" THEN raise(included)
        ELSE [st EXCEPT !.preprocessed_template_str = @ \o included.str]

\* _preprocess, lines 296-306: the block closed by the tag is rendered
close_block(st, block, rendered) ==
    IF rendered.exc # "" THEN [st EXCEPT !.opened_block = <<block>>, !.exc = rendered.exc, !.msg = rendered.msg]
    ELSE [st EXCEPT !.next_start_index = rendered.end, !.preprocessed_template_str = @ \o rendered.str, !.opened_block = <<>>]

\* _preprocess, lines 294-306: what check_closing_tag said of the tag
check_block(st, s, ctx, closed) ==
    IF ~closed.closing THEN [st EXCEPT !.opened_block = <<closed.block>>]
    ELSE close_block(st, closed.block, TagLogicBlock_render(closed.block, s, ctx))

\* a scan that executes the tags it sees inside an open block
preprocess_block_executing(st, s, ctx, tag_match, added) ==
    IF added.added THEN [st EXCEPT !.opened_block = <<added.block>>]
    ELSE IF check_closing_tag(st.opened_block[1], s, tag_match) = [closing |-> FALSE, block |-> st.opened_block[1]]
    THEN preprocess_tag(st, s, ctx, tag_match)
    ELSE check_block(st, s, ctx, check_closing_tag(st.opened_block[1], s, tag_match))

\* _preprocess, lines 291-308: a tag seen while a block is open
preprocess_block(st, s, ctx, tag_match, added) ==
    IF added.added THEN [st EXCEPT !.opened_block = <<added.block>>]
    ELSE check_block(st, s, ctx, check_closing_tag(st.opened_block[1], s, tag_match))

\* _preprocess, lines 277-329: the body of the loop, for one match
preprocess_match(st, s, ctx, tag_match) ==
    IF st.opened_block = <<>>
    THEN preprocess_tag([st EXCEPT !.preprocessed_template_str = @ \o Slice(s, st.next_start_index, tag_match.start),
                                   !.next_start_index = tag_match.end], s, ctx, tag_match)
    ELSE preprocess_block(st, s, ctx, tag_match, try_add_sub_tag(st.opened_block[1], s, tag_match))

\* _TagLogicBlock.render, lines 190-202: the mapping of the caller after
\* the handler of the block's start tag was called, if it was. Only for_block
\* is given the mapping to build another from it.
block_context(block, s, ctx) ==
    IF block.tag # TAG_FOR \/ try_validate_args_len(block.tag, parse_args(ctx, deconstruct_tag(s, block.block_start_match).args), TRUE, <<>>).exc # ""
    THEN ctx
    ELSE for_block_context(ctx, parse_args(ctx, deconstruct_tag(s, block.block_start_match).args))

\* _preprocess, lines 277-329: the mapping of the caller after the body of
\* the loop, for one match
preprocess_context(st, s, ctx, tag_match) ==
    IF st.opened_block = <<>> THEN ctx
    ELSE IF try_add_sub_tag(st.opened_block[1], s, tag_match).added THEN ctx
    ELSE IF ~check_closing_tag(st.opened_block[1], s, tag_match).closing THEN ctx
    ELSE block_context(check_closing_tag(st.opened_block[1], s, tag_match).block, s, ctx)

\* an end of the scan that forgets the text after the last tag
preprocess_end_no_tail(st, s) ==
    IF st.opened_block # <<>> THEN RenderRaises("UnclosedBlockTagException", "Unclosed block")
    ELSE Rendered(st.preprocessed_template_str)

\* an end of the scan that forgets the block still open
preprocess_end_open(st, s) ==
    Rendered(st.preprocessed_template_str \o Slice(s, st.next_start_index, Len(s)))

\* _preprocess, lines 331-339: after the last match
preprocess_end(st, s) ==
    IF st.opened_block # <<>> THEN RenderRaises("UnclosedBlockTagException", "Unclosed block")
    ELSE Rendered(st.preprocessed_template_str \o Slice(s, st.next_start_index, Len(s)))

\* _preprocess on the matches still to look at
preprocess(s, ctx, st, tag_matches) ==
    IF st.exc # "" THEN RenderRaises(st.exc, st.msg)
    ELSE IF Len(tag_matches) = 0 THEN preprocess_end(st, s)
    ELSE preprocess(s, ctx, preprocess_match(st, s, ctx, tag_matches[1]), Tail(tag_matches))

\* _preprocess: the locals after the body of the loop, or the exception
PreprocessStep(st) ==
    /\ preprocessed_template_str' = st.preprocessed_template_str
    /\ next_start_index' = st.next_start_index
    /\ opened_block' = st.opened_block
    /\ IF st.exc # ""
       THEN outcome' = Raises(st.exc, st.msg) /\ pc' = "done" /\ match_index' = match_index
       ELSE outcome' = outcome /\ pc' = pc /\ match_index' = match_index + 1

\* _preprocess, lines 276-329: the loop looks at one match of the template
PreprocessMatch ==
    /\ pc = "preprocess"
    /\ match_index < Len(finditer(template_str, 1))
    /\ PreprocessStep(preprocess_match([preprocessed_template_str |-> preprocessed_template_str, next_start_index |-> next_start_index,
                                        opened_block |-> opened_block, exc |-> "", msg |-> ""],
                                       template_str, context, finditer(template_str, 1)[match_index + 1]))
    /\ context' = preprocess_context([preprocessed_template_str |-> preprocessed_template_str, next_start_index |-> next_start_index,
                                       opened_block |-> opened_block, exc |-> "", msg |-> ""],
                                      template_str, context, finditer(template_str, 1)[match_index + 1])
    /\ UNCHANGED <<entry, parseVars, evalVars, template_str, registerVars, literalVars>>

\* _preprocess, lines 331-339, and _render_raw
PreprocessEnd ==
    /\ pc = "preprocess"
    /\ match_index = Len(finditer(template_str, 1))
    /\ LET raw == preprocess_end([preprocessed_template_str |-> preprocessed_template_str, next_start_index |-> next_start_index,
                                  opened_block |-> opened_block, exc |-> "", msg |-> ""], template_str)
       IN  IF raw.exc # ""
           THEN outcome' = Raises(raw.exc, raw.msg) /\ pc' = "done" /\ preprocessed_template_str' = preprocessed_template_str
           ELSE outcome' = outcome /\ pc' = "format" /\ preprocessed_template_str' = raw.str
    /\ UNCHANGED <<entry, context, parseVars, evalVars, template_str, match_index, next_start_index, opened_block, registerVars, literalVars>>

\* TemplateRenderer.render, line 369: the substitution of the context
RenderFormat ==
    /\ pc = "format"
    /\ LET formatted == Format(preprocessed_template_str, context)
       IN  outcome' = IF formatted.exc # "" THEN Raises(formatted.exc, formatted.msg) ELSE Returns(PyStr(formatted.str))
    /\ pc' = "done"
    /\ UNCHANGED <<entry, context, parseVars, evalVars, renderVars, registerVars, literalVars>>

----------------------------------------------------------------------------
(* The templates rendered *)

\* the pieces of the templates
\* A
TextA == <<"A">>
\* B
TextB == <<"B">>
\* \n
Newline == <<"\n">>
\* {x};
FieldX == <<"{", "x", "}", ";">>
\* {% if a == b %}
IfTag == <<"{", "%", " ", "i", "f", " ", "a", " ", "=", "=", " ", "b", " ", "%", "}">>
\* {% if a == a %}
IfSameTag == <<"{", "%", " ", "i", "f", " ", "a", " ", "=", "=", " ", "a", " ", "%", "}">>
\* {% elif a == b %}
ElifTag == <<"{", "%", " ", "e", "l", "i", "f", " ", "a", " ", "=", "=", " ", "b", " ", "%", "}">>
\* {% else %}
ElseTag == <<"{", "%", " ", "e", "l", "s", "e", " ", "%", "}">>
\* {% endif %}
EndifTag == <<"{", "%", " ", "e", "n", "d", "i", "f", " ", "%", "}">>
\* {% for x in items %}
ForTag == <<"{", "%", " ", "f", "o", "r", " ", "x", " ", "i", "n", " ", "i", "t", "e", "m", "s", " ", "%", "}">>
\* {% endfor %}
EndforTag == <<"{", "%", " ", "e", "n", "d", "f", "o", "r", " ", "%", "}">>
\* {% include p/t %}
IncludeTag == <<"{", "%", " ", "i", "n", "c", "l", "u", "d", "e", " ", "p", "/", "t", " ", "%", "}">>
\* {% nop %}
OtherTag == <<"{", "%", " ", "n", "o", "p", " ", "%", "}">>
\* {% if False %}
IfFalseTag == <<"{", "%", " ", "i", "f", " ", "F", "a", "l", "s", "e", " ", "%", "}">>
\* {% if True %}
IfTrueTag == <<"{", "%", " ", "i", "f", " ", "T", "r", "u", "e", " ", "%", "}">>

\* templates of the documentation and of the cases around them
IfElseOneLine == IfFalseTag \o TextA \o ElseTag \o TextB \o EndifTag
IfOneLine == IfTrueTag \o TextA \o EndifTag
IfElseLines == IfFalseTag \o Newline \o TextA \o Newline \o ElseTag \o Newline \o TextB \o Newline \o EndifTag
IfLines == IfTrueTag \o Newline \o TextA \o Newline \o EndifTag
CompareLines == IfTag \o Newline \o TextA \o Newline \o ElseTag \o Newline \o TextB \o Newline \o EndifTag
ElifLines == IfTag \o Newline \o TextA \o Newline \o ElifTag \o Newline \o TextB \o Newline \o EndifTag
ForOneLine == ForTag \o FieldX \o EndforTag
ForLines == ForTag \o Newline \o FieldX \o Newline \o EndforTag
ForThenFieldLines == ForLines \o Newline \o FieldX
NestedLines == IfSameTag \o Newline \o TextA \o Newline \o IfTag \o Newline \o TextB \o Newline \o ElseTag \o Newline \o FieldX \o Newline \o EndifTag \o Newline \o TextA \o Newline \o EndifTag \o Newline \o TextB
NestedElseLines == IfTag \o Newline \o TextA \o Newline \o IfTag \o Newline \o TextB \o Newline \o ElseTag \o Newline \o TextA \o Newline \o EndifTag \o Newline \o ElseTag \o Newline \o TextB \o Newline \o EndifTag \o Newline \o TextA
ForInIfLines == IfSameTag \o Newline \o ForTag \o Newline \o FieldX \o Newline \o EndforTag \o Newline \o EndifTag
IncludeLine == TextA \o IncludeTag \o TextB
OtherLine == TextA \o OtherTag
SkippedOtherLines == IfTag \o Newline \o OtherTag \o Newline \o ElseTag \o Newline \o TextB \o Newline \o EndifTag
SkippedIncludeLines == IfTag \o Newline \o IncludeTag \o Newline \o ElseTag \o Newline \o TextB \o Newline \o EndifTag
\* the text of the template file 's'
IncludeSelfLine == TemplateFiles[<<"s">>]

ExampleTemplates == {IfElseOneLine, IfOneLine, IfElseLines, IfLines, CompareLines, ElifLines, ForOneLine, ForLines, ForThenFieldLines, NestedLines, NestedElseLines, ForInIfLines, IncludeLine, OtherLine, SkippedOtherLines, SkippedIncludeLines, IncludeSelfLine}

\* every template of at most MaxPieces pieces, on one line or several
EnumeratedPieces == {TextA, Newline, FieldX, IfTag, ElseTag, EndifTag, ForTag, EndforTag}
EnumeratedTemplates == {Concat(pieces) : pieces \in UNION {[1..n -> EnumeratedPieces] : n \in 0..MaxPieces}}

\* every template of at most MaxTags lines, each one tag
EnumeratedLines == {IfTag, IfSameTag, ElseTag, EndifTag, EndforTag}
TagTemplates == {Concat([k \in 1..Len(lines) |-> lines[k] \o Newline]) : lines \in UNION {[1..n -> EnumeratedLines] : n \in 0..MaxTags}}

\* {'a': 1, 'b': 2, 'items': [1, 2, 3]}
DifferentContext == PyDict(<<<<<<"a">>, PyInt(1)>>, <<<<"b">>, PyInt(2)>>, <<<<"i", "t", "e", "m", "s">>, PyList(<<PyInt(1), PyInt(2), PyInt(3)>>)>>>>)
\* {'a': 1, 'b': 1, 'items': []}
SameContext == PyDict(<<<<<<"a">>, PyInt(1)>>, <<<<"b">>, PyInt(1)>>, <<<<"i", "t", "e", "m", "s">>, PyList(<<>>)>>>>)
\* {'items': [1, 2, 3], 'x': 'y'}
ShadowContext == PyDict(<<<<<<"i", "t", "e", "m", "s">>, PyList(<<PyInt(1), PyInt(2), PyInt(3)>>)>>, <<<<"x">>, PyStr(<<"y">>)>>>>)

\* {'% include s %': 'v'}: the tag of IncludeSelfLine as a field name
FieldContext == PyDict(<<<<<<"%", " ", "i", "n", "c", "l", "u", "d", "e", " ", "s", " ", "%">>, PyStr(<<"v">>)>>>>)

RenderContexts == {EmptyContext, DifferentContext, SameContext, ShadowContext}

\* TemplateRenderer(template).render(context) is called
InitRender ==
    /\ entry = "TemplateRenderer.render"
    /\ \/ template_str \in ExampleTemplates /\ context \in RenderContexts
       \/ template_str \in EnumeratedTemplates /\ context \in {DifferentContext, ShadowContext}
       \/ template_str \in TagTemplates /\ context = DifferentContext
       \/ template_str = IncludeSelfLine /\ context = FieldContext
    /\ match_index = 0 /\ preprocessed_template_str = <<>> /\ next_start_index = 0 /\ opened_block = <<>>
    /\ NoParse /\ items = <<>> /\ NoEval /\ NoRegister /\ NoLiteral
    /\ pc = "preprocess"
    /\ outcome = Running

NextRender ==
    \/ PreprocessMatch
    \/ PreprocessEnd
    \/ RenderFormat

SpecRender == InitRender /\ [][NextRender]_vars

----------------------------------------------------------------------------
(* The template renderer: rendered blocks *)

RenderDone == pc = "done" /\ entry = "TemplateRenderer.render"

\* C8: rendering '{% if False %}A{% else %}B{% endif %}' against the empty
\* context yields 'B' and rendering '{% if True %}A{% endif %}' yields 'A':
\* a false condition renders the else branch and nothing of the if branch.
C8_IfElse ==
    (RenderDone /\ context = EmptyContext) =>
        /\ template_str = IfElseOneLine => outcome = Returns(PyStr(<<"B">>))
        /\ template_str = IfOneLine => outcome = Returns(PyStr(<<"A">>))

\* the list bound to 'items' in the context, if there is one
ItemsOf(ctx) ==
    LET found == DictGet(ctx.d, <<"i", "t", "e", "m", "s">>)
    IN  IF found # <<>> /\ found[1].t = "list" THEN <<found[1].l>> ELSE <<>>

\* C9: the block 'for x in items' renders its body once per element of the
\* iterable, in iteration order, each time with x bound to that element,
\* and its output is the concatenation of those renderings in that order
\* (nothing for an empty iterable); here the body is '{x};'.
C9_ForEach ==
    (RenderDone /\ template_str = ForLines /\ ItemsOf(context) # <<>>) =>
        outcome = Returns(PyStr(Concat([k \in 1..Len(ItemsOf(context)[1]) |-> StrOf(ItemsOf(context)[1][k]) \o <<";">>])))

\* the tag _preprocess looks at next, while a block is open
BlockOpen == pc = "preprocess" /\ opened_block # <<>> /\ match_index < Len(finditer(template_str, 1))
NextTag == deconstruct_tag(template_str, finditer(template_str, 1)[match_index + 1]).func_name
OpenEndTag == RENDER_BLOCK_TAGS[opened_block[1].tag].end_tag
OpenDepth == opened_block[1].block_close_tag_depth
StillOpen == opened_block # <<>> /\ opened_block[1].block_close_match = <<>>

\* C10: while a block is open, every nested block tag with the end tag of
\* the open block increments the depth of the open block, every such end
\* tag seen at depth > 0 only decrements it, and the open block is closed
\* only by an end tag seen at depth 0: the end tag of a nested block never
\* closes the enclosing block.
C10_NestedDepth ==
    [][BlockOpen =>
        /\ (NextTag \in DOMAIN RENDER_BLOCK_TAGS /\ RENDER_BLOCK_TAGS[NextTag].end_tag = OpenEndTag)
                => (StillOpen' /\ OpenDepth' = OpenDepth + 1)
        /\ (NextTag = OpenEndTag /\ OpenDepth > 0)
                => (StillOpen' /\ OpenDepth' = OpenDepth - 1)
        /\ ~StillOpen' => (NextTag = OpenEndTag /\ OpenDepth = 0)]_vars

\* a block is still open, at depth 0 again, after the end tag of a block
\* nested in it
C10_Witness ==
    /\ pc = "preprocess" /\ StillOpen /\ OpenDepth = 0
    /\ \E k \in 1..match_index :
            /\ finditer(template_str, 1)[k].start > opened_block[1].block_start_match.start
            /\ deconstruct_tag(template_str, finditer(template_str, 1)[k]).func_name = OpenEndTag

\* the scan of the tags has looked at every match of the template
ScanEnded == match_index = Len(finditer(template_str, 1))

\* C11: when the scan of a template's tags ends while a block is still
\* open, rendering raises UnclosedBlockTagException and returns no output;
\* rendering returns normally only when every opened block was closed.
C11_UnclosedBlock ==
    /\ (RenderDone /\ ScanEnded /\ opened_block # <<>>) => outcome = Raises("UnclosedBlockTagException", "Unclosed block")
    /\ (entry = "TemplateRenderer.render" /\ (pc = "format" \/ (pc = "done" /\ outcome.exc = ""))) => opened_block = <<>>

\* a render that ended with a block opened and never closed
C11_Witness == RenderDone /\ ScanEnded /\ opened_block # <<>> /\ outcome.exc = "UnclosedBlockTagException"

----------------------------------------------------------------------------
(* register.py: the registry of the tags *)

\* tag_name in block_tag_match.get('sub_tags', []): sub_tags is a sequence
\* of zero (None) or one lists; `in None` raises TypeError
InSubTags(tag_name, sub_tags) ==
    IF sub_tags = <<>> THEN [exc |-> "TypeError", value |-> FALSE]
    ELSE [exc |-> "", value |-> \E k \in 1..Len(sub_tags[1]) : sub_tags[1][k] = tag_name]

RECURSIVE AnySubTag(_, _)
\* _tag_already_registered, lines 130-135: the loop over the block tags
AnySubTag(tag_name, block_tag_matches) ==
    IF Len(block_tag_matches) = 0 THEN [exc |-> "", value |-> FALSE]
    ELSE IF InSubTags(tag_name, block_tag_matches[1][2].sub_tags).exc # "" THEN InSubTags(tag_name, block_tag_matches[1][2].sub_tags)
    ELSE IF InSubTags(tag_name, block_tag_matches[1][2].sub_tags).value THEN [exc |-> "", value |-> TRUE]
    ELSE AnySubTag(tag_name, Tail(block_tag_matches))

\* _tag_already_registered: the exception raised, or the answer
tag_already_registered(inline, block, tag_name) ==
    IF DictGet(inline, tag_name) # <<>> \/ DictGet(block, tag_name) # <<>> THEN [exc |-> "", value |-> TRUE]
    ELSE AnySubTag(tag_name, block)

RECURSIVE CheckSubTags(_, _, _, _)
\* _register_block_tag, lines 162-167: the loop over sub_tag_list, which
\* asks for tag_name again, not for the sub tag
CheckSubTags(inline, block, tag_name, sub_tag_list) ==
    IF Len(sub_tag_list) = 0 THEN [exc |-> "", value |-> FALSE]
    ELSE IF tag_already_registered(inline, block, tag_name).exc # "" THEN tag_already_registered(inline, block, tag_name)
    ELSE IF tag_already_registered(inline, block, tag_name).value THEN [exc |-> "TagAlreadyRegisteredException", value |-> TRUE]
    ELSE CheckSubTags(inline, block, tag_name, Tail(sub_tag_list))

\* the names and the functions registered
Names == {TAG_IF, TAG_ELSE}
SubNames == {TAG_ELSE, TAG_ELIF}
TagFunctions == {"conditional_block", "for_block"}
\* sub_tag_list: None, or a list of at most MaxSubTags names
SubTagLists == {<<>>} \cup {<<list>> : list \in UNION {[1..n -> SubNames] : n \in 0..MaxSubTags}}

\* the call, and what it raised
Registered(call, exc) ==
    /\ registration' = <<call>>
    /\ outcome' = IF exc = "" THEN Returns(PyNone) ELSE Raises(exc, "")
    /\ pc' = "register"
    /\ UNCHANGED <<context, parseVars, evalVars, renderVars, literalVars>>

\* _register_inline_tag(tag_name, tag_function)
RegisterInlineTag ==
    /\ pc = "register"
    /\ \E tag_name \in Names, tag_function \in TagFunctions :
        LET already == tag_already_registered(inline_tag_map, block_tag_map, tag_name)
            call == [tag_name |-> tag_name, end_tag |-> <<>>, tag_function |-> tag_function, sub_tag_list |-> <<>>]
        IN  /\ entry' = "register_inline_tag"
            /\ IF already.exc # "" THEN Registered(call, already.exc) /\ UNCHANGED <<inline_tag_map, block_tag_map>>
               ELSE IF already.value THEN Registered(call, "TagAlreadyRegisteredException") /\ UNCHANGED <<inline_tag_map, block_tag_map>>
               ELSE /\ Registered(call, "")
                    /\ inline_tag_map' = Append(inline_tag_map, <<tag_name, [tag_function |-> tag_function]>>)
                    /\ block_tag_map' = block_tag_map

\* _register_block_tag(tag_name, end_tag, tag_function, sub_tag_list)
RegisterBlockTag ==
    /\ pc = "register"
    /\ \E tag_name \in Names, tag_function \in TagFunctions, sub_tag_list \in SubTagLists :
        LET already == tag_already_registered(inline_tag_map, block_tag_map, tag_name)
            sub_tags == IF sub_tag_list = <<>> THEN [exc |-> "", value |-> FALSE]
                        ELSE CheckSubTags(inline_tag_map, block_tag_map, tag_name, sub_tag_list[1])
            call == [tag_name |-> tag_name, end_tag |-> TAG_ENDIF, tag_function |-> tag_function, sub_tag_list |-> sub_tag_list]
        IN  /\ entry' = "register_block_tag"
            /\ IF already.exc # "" THEN Registered(call, already.exc) /\ UNCHANGED <<inline_tag_map, block_tag_map>>
               ELSE IF already.value THEN Registered(call, "TagAlreadyRegisteredException") /\ UNCHANGED <<inline_tag_map, block_tag_map>>
               ELSE IF sub_tags.exc # "" THEN Registered(call, sub_tags.exc) /\ UNCHANGED <<inline_tag_map, block_tag_map>>
               ELSE /\ Registered(call, "")
                    /\ block_tag_map' = Append(block_tag_map, <<tag_name, [end_tag |-> TAG_ENDIF, tag_function |-> tag_function, sub_tags |-> sub_tag_list]>>)
                    /\ inline_tag_map' = inline_tag_map

\* register.py is imported: both maps are empty
InitRegister ==
    /\ entry = "register"
    /\ context = EmptyContext
    /\ NoParse /\ items = <<>> /\ NoEval /\ NoRender /\ NoRegister /\ NoLiteral
    /\ pc = "register"
    /\ outcome = Running

NextRegister ==
    \/ RegisterInlineTag
    \/ RegisterBlockTag

SpecRegister == InitRegister /\ [][NextRegister]_vars

\* the registrations that use the name: the inline tag, the block tag, and
\* the block tags that have it among their sub tags
Users(inline, block, name) ==
    {<<"inline", inline[k][1]>> : k \in {k \in 1..Len(inline) : inline[k][1] = name}}
    \cup {<<"block", block[k][1]>> : k \in {k \in 1..Len(block) : block[k][1] = name \/ (block[k][2].sub_tags # <<>> /\ \E j \in 1..Len(block[k][2].sub_tags[1]) : block[k][2].sub_tags[1][j] = name)}}
InUse(inline, block, name) == Users(inline, block, name) # {}

\* C12: after any sequence of tag registrations no name is used by two
\* registered tags at once, as an inline tag name, a block tag name or a
\* sub-tag name of a block: a registration whose tag name or one of whose
\* sub-tag names is already in use raises TagAlreadyRegisteredException and
\* leaves the existing entries as they were.
C12_NoNameTwice ==
    /\ [](\A name \in Names \cup SubNames : Cardinality(Users(inline_tag_map, block_tag_map, name)) <= 1)
    /\ [][registration' # <<>> =>
            LET call == registration'[1]
                used == \/ InUse(inline_tag_map, block_tag_map, call.tag_name)
                        \/ /\ call.sub_tag_list # <<>>
                           /\ \E k \in 1..Len(call.sub_tag_list[1]) : InUse(inline_tag_map, block_tag_map, call.sub_tag_list[1][k])
            IN  used => (outcome'.exc = "TagAlreadyRegisteredException" /\ inline_tag_map' = inline_tag_map /\ block_tag_map' = block_tag_map)]_vars

----------------------------------------------------------------------------
(* The template renderer: templates without tags *)

NoTags == finditer(template_str, 1) = <<>>
NoBraces == \A k \in 1..Len(template_str) : template_str[k] \notin {"{", "}"}

\* C13: rendering a template that contains no tags returns the template
\* text unchanged, so rendering that output again returns the same string.
C13_NoTagsUnchanged ==
    (RenderDone /\ NoTags) =>
        /\ outcome = Returns(PyStr(template_str))
        /\ render(template_str, context) = Rendered(template_str)

\* C13, amended: rendering a template that contains no tags and no brace
\* returns the template text unchanged, so rendering that output again
\* returns the same string.
C13_NoTagsNoBraces ==
    (RenderDone /\ NoTags /\ NoBraces) =>
        /\ outcome = Returns(PyStr(template_str))
        /\ render(outcome.value.s, context) = Rendered(outcome.value.s)

\* a text of several characters, without tags or braces, was rendered
C13_Witness == RenderDone /\ NoTags /\ NoBraces /\ Len(template_str) > 1 /\ outcome = Returns(PyStr(template_str))

----------------------------------------------------------------------------
(* The evaluator: constants, indices and the end of the reduction *)

TextPiEqualsPi == <<"p", "i", " ", "=", "=", " ", "p", "i">>
TextOneEqualsOne == <<"1", " ", "=", "=", " ", "1">>
TextOneDiffersOne == <<"1", " ", "!", "=", " ", "1">>

\* the loop of ParseTree.evaluate is about to apply an operator
Applying == pc = "loop" /\ op_cursor <= Len(operator_matches)
AppliedIndex == operator_matches[op_cursor].index
AppliedOperator == operator_matches[op_cursor].operator

\* C14: a zero-arity operator (the constant pi) is replaced in place by its
\* value without consuming either neighbour, and before any operator of
\* lower precedence is applied, so 'pi == pi' evaluates to True, '1 == 1'
\* to True and '1 != 1' to False.
C14_ZeroArity ==
    /\ [](Parsed =>
            /\ (args = TextPiEqualsPi => outcome = Returns(PyBool(TRUE)))
            /\ (args = TextOneEqualsOne => outcome = Returns(PyBool(TRUE)))
            /\ (args = TextOneDiffersOne => outcome = Returns(PyBool(FALSE))))
    /\ [](pc = "loop" =>
            \A i, j \in 1..Len(operator_matches) :
                (i < j /\ argument_count(operator_matches[j].operator) = 0)
                    => precedence(operator_matches[i].operator) >= precedence(operator_matches[j].operator))
    /\ [][(Applying /\ argument_count(AppliedOperator) = 0) =>
            /\ evaluated_items' = [evaluated_items EXCEPT ![AppliedIndex + 1] = PI]
            /\ evaluated_items[AppliedIndex + 1] = OperatorItem(AppliedOperator)
            /\ pc' = "loop"]_vars

\* 'pi == pi' was evaluated
C14_Witness == Parsed /\ args = TextPiEqualsPi /\ outcome.exc = ""

----------------------------------------------------------------------------
(* The template renderer: a template that includes itself *)

SelfIncluded == entry = "TemplateRenderer.render" /\ template_str = IncludeSelfLine

ShiftedLeft ==
    \A k \in 1..Len(operator_matches) :
        operator_matches'[k].index =
            IF operator_matches[k].index > AppliedIndex
            THEN operator_matches[k].index - (Len(evaluated_items) - Len(evaluated_items'))
            ELSE operator_matches[k].index

\* C16: during the reduction by precedence, at the moment each operator is
\* applied its recorded index is the position of that same operator in the
\* working list: after every application the indices of all operators to
\* its right have been shifted left by exactly the number of slots removed.
C16_RecordedIndex ==
    /\ [](Applying =>
            /\ AppliedIndex < Len(evaluated_items)
            /\ evaluated_items[AppliedIndex + 1] = OperatorItem(AppliedOperator))
    /\ [][(Applying /\ pc' = "loop") => ShiftedLeft]_vars

----------------------------------------------------------------------------
(* The tokenizer: identifiers *)

OperatorKeywords == {<<"i", "n">>, <<"n", "o", "t">>, <<"a", "n", "d">>, <<"o", "r">>, <<"p", "i">>}

\* the text was tokenized, or the tokenizer raised
Tokenized == entry = "parse_string_to_value" /\ pc # "scan"

\* C17: every string matching [A-Za-z_][A-Za-z0-9_]* that is not itself an
\* operator keyword (in, not, and, or, pi) tokenizes to exactly one
\* Identifier token whose name is the whole string, also when it begins
\* with an operator keyword or a prefix of one ('ant', 'a', 'input',
\* 'order').
C17_WholeIdentifier ==
    (Tokenized /\ IsIdentifier(args) /\ args \notin OperatorKeywords) => items = <<Identifier(<<args>>)>>

----------------------------------------------------------------------------
(* The chain of a block's start tag and sub tags *)

\* the tag now seen while a block is open closes that block
ClosingBlock ==
    /\ BlockOpen
    /\ ~try_add_sub_tag(opened_block[1], template_str, finditer(template_str, 1)[match_index + 1]).added
    /\ check_closing_tag(opened_block[1], template_str, finditer(template_str, 1)[match_index + 1]).closing

\* the block as it is when it closes
ClosedBlock == check_closing_tag(opened_block[1], template_str, finditer(template_str, 1)[match_index + 1]).block

\* what the handler of the k-th tag of the chain returns, the start tag
\* being the tag 0 and the sub tags following in source order, on the
\* content between that tag and the next sub tag or the end tag
HandlerOutput(block, s, ctx, k) ==
    LET tag_match == IF k = 0 THEN block.block_start_match ELSE block.sub_tag_matche_list[k]
        next_start == IF k < Len(block.sub_tag_matche_list) THEN block.sub_tag_matche_list[k + 1].start
                      ELSE block.block_close_match[1].start
        tag == deconstruct_tag(s, tag_match)
        parsed == parse_args(ctx, tag.args)
        sub_tag == IF k = 0 THEN <<>> ELSE <<tag.func_name>>
        tag_function == get_tag_function(block.tag, TRUE, sub_tag)
        valid == try_validate_args_len(block.tag, parsed, TRUE, sub_tag)
    IN  IF tag_function.exc # "" THEN TagRaises(tag_function.exc, tag_function.msg)
        ELSE IF valid.exc # "" THEN TagRaises(valid.exc, valid.msg)
        ELSE IF tag_function.str = "for_block" THEN for_block(ctx, Strip(Slice(s, tag_match.end, next_start)), parsed)
        ELSE conditional_block(ctx, Strip(Slice(s, tag_match.end, next_start)), parsed)

RECURSIVE ChainFrom(_, _, _, _)

\* the output of the k-th handler, or what the rest of the chain gives
ChainPick(block, s, ctx, k, tag_output) ==
    IF tag_output.exc # "" \/ ~tag_output.none THEN tag_output ELSE ChainFrom(block, s, ctx, k + 1)

\* the first output of the chain from its k-th tag on, each tag tried once;
\* the empty string when no handler returns output
ChainFrom(block, s, ctx, k) ==
    IF k > Len(block.sub_tag_matche_list) THEN TagOutput(<<>>)
    ELSE ChainPick(block, s, ctx, k, HandlerOutput(block, s, ctx, k))

\* the closing step puts the rendered text into the output and goes on
BlockRendered(raw) ==
    raw.exc = "" =>
        /\ opened_block' = <<>>
        /\ preprocessed_template_str' = preprocessed_template_str \o raw.str
        /\ outcome' = Running /\ pc' = "preprocess"

\* the closing step renders the text the chain gave
ChainRendered(tag_output) ==
    tag_output.exc = "" => BlockRendered(render_raw(tag_output.str, context))

\* C18: when a block closes, its start tag and then each recorded sub tag
\* are tried at most once, in source order; the first whose handler returns
\* output supplies the block's text (the content between that tag and the
\* next sub tag or the end tag), and when no handler of the chain returns
\* output the block renders as the empty string; rendering the block always
\* terminates.
C18_SubTagChain ==
    [][ClosingBlock => ChainRendered(ChainFrom(ClosedBlock, template_str, context, 0))]_vars

----------------------------------------------------------------------------
(* The sub tags of the open block *)

\* the name of a tag of the template
TagName(tag_match) == deconstruct_tag(template_str, tag_match).func_name

\* the tags of the template between two tags whose name is in a set
TagsBetween(first, last, names) ==
    {k \in 1..Len(finditer(template_str, 1)) :
        /\ finditer(template_str, 1)[k].start > first.start
        /\ finditer(template_str, 1)[k].start < last.start
        /\ TagName(finditer(template_str, 1)[k]) \in names}

\* the block tags that end as the open block does
OpenLike == {tag \in DOMAIN RENDER_BLOCK_TAGS : RENDER_BLOCK_TAGS[tag].end_tag = OpenEndTag}

\* no block nested in the open block is open at the tag
AtDepthZero(tag_match) ==
    Cardinality(TagsBetween(opened_block[1].block_start_match, tag_match, OpenLike))
        = Cardinality(TagsBetween(opened_block[1].block_start_match, tag_match, {OpenEndTag}))

\* the sub tags recorded in the open block
SubTagsRecorded == opened_block[1].sub_tag_matche_list

\* C19: a tag is recorded as a sub tag of the open block only when the
\* depth counter of the block is 0 and the name of the tag is in the
\* declared sub tags of the block; so an elif or else that belongs to a
\* nested if is never attached to the enclosing if, and the depth counter
\* is never negative.
C19_SubTagDepthZero ==
    /\ [](opened_block # <<>> =>
            /\ OpenDepth >= 0
            /\ \A k \in 1..Len(SubTagsRecorded) :
                    /\ AtDepthZero(SubTagsRecorded[k])
                    /\ TagName(SubTagsRecorded[k]) \in RENDER_BLOCK_TAGS[opened_block[1].tag].sub_tags)
    /\ [][(BlockOpen /\ opened_block' # <<>> /\ SubTagsRecorded' # SubTagsRecorded) =>
            /\ OpenDepth = 0
            /\ NextTag \in RENDER_BLOCK_TAGS[opened_block[1].tag].sub_tags
            /\ SubTagsRecorded' = Append(SubTagsRecorded, finditer(template_str, 1)[match_index + 1])]_vars

\* the open block has recorded its own else, and not the else of the if
\* nested in it that came before
C19_Witness ==
    /\ pc = "preprocess" /\ StillOpen /\ Len(SubTagsRecorded) = 1
    /\ TagName(SubTagsRecorded[1]) = TAG_ELSE
    /\ TagsBetween(opened_block[1].block_start_match, SubTagsRecorded[1], {TAG_ELSE}) # {}

----------------------------------------------------------------------------
(* The end of the evaluation *)

\* the evaluation ended after the loop had applied every operator: a raise
\* in the loop leaves the cursor on the operator that raised
AllApplied == pc = "done" /\ op_cursor > Len(operator_matches)

\* C20: after all operators of a multi-token expression have been applied,
\* the evaluator returns None if no item remains, returns the item if
\* exactly one remains, and raises ExpressionSyntaxException ('is not
\* valid') if more than one remains, as with two values and no operator
\* between them.
C20_ItemsLeft ==
    AllApplied =>
        /\ Len(items) # 1
        /\ Len(evaluated_items) = 0 => outcome = Returns(PyNone)
        /\ Len(evaluated_items) = 1 => outcome = Returns(evaluated_items[1])
        /\ Len(evaluated_items) > 1 => outcome = Raises("ExpressionSyntaxException", "is not valid")

\* an operator was applied and two values are left
C20_Witness ==
    AllApplied /\ Len(operator_matches) > 0 /\ Len(evaluated_items) > 1 /\ outcome.exc = "ExpressionSyntaxException"

----------------------------------------------------------------------------
(* The tokenizer: what is in progress *)

\* how many of the three locals of the tokenizer are set
InProgress == Len(current_operator) + Len(current_identifier) + Len(current_literal)

\* C21: at the start of processing every character, and at the flush at
\* the end of the input, at most one of the tokenizer's operator candidate
\* in progress, identifier in progress and literal in progress is set.
C21_OneInProgress == pc = "scan" => InProgress <= 1

\* an operator candidate is in progress right after the character that
\* began it ended an identifier
C21_Witness ==
    /\ pc = "scan" /\ position > 0 /\ current_operator # <<>> /\ Len(current_operator[1]) = 1
    /\ parsed_args # <<>> /\ parsed_args[Len(parsed_args)].cls = "Identifier"

----------------------------------------------------------------------------
(* The if/elif handler *)

\* the handler returns, the value of its argument expression in hand
HandlerReturns == entry = "conditional_block" /\ pc = "done" /\ outcome.exc = "" /\ pc' = "returned"

\* C22: the if/elif handler returns the block contents exactly when its
\* argument expression evaluates to the value True or to None (the empty
\* condition), and returns 'no output' for every other value, False and
\* the truthy values that are no boolean included.
C22_TrueOrNone ==
    [][HandlerReturns =>
        IF outcome.value = PyBool(TRUE) \/ outcome.value = PyNone
        THEN outcome' = Returns(PyStr(BlockContents))
        ELSE outcome' = Returns(PyNone)]_vars

\* the handler returned no output for '123', which evaluates to a truthy
\* value that is no boolean
C22_Witness == entry = "conditional_block" /\ pc = "returned" /\ args = TextInt /\ outcome = Returns(PyNone)

----------------------------------------------------------------------------
(* The tokenizer: the end of a numeric literal *)

\* the loop is about to take a character while a numeric literal is in
\* progress
NumericInProgress == pc = "scan" /\ position < Len(args) /\ current_literal # <<>>
NextChar == args[position + 1]
NumericText == current_literal[1].text

\* the step leaves the locals as st has them
LocalsBecome(st) ==
    /\ parsed_args' = st.parsed_args
    /\ current_identifier' = st.current_identifier
    /\ current_literal' = st.current_literal
    /\ current_operator' = st.current_operator
    /\ IF st.step = "raise"
       THEN outcome' = Raises(st.exc, st.msg) /\ pc' = "done" /\ position' = position
       ELSE outcome' = Running /\ pc' = "scan" /\ position' = position + 1

\* the literal is among the tokens with the text it had, and the character
\* is taken as a tokenizer with nothing in progress takes it
GivenBack ==
    LocalsBecome(ScanCharacter(Locals(Append(parsed_args, NumericLiteral(NumericText)), <<>>, <<>>, <<>>), NextChar))

\* the literal grows by the character, and nothing else changes
Grown ==
    /\ current_literal' = <<[current_literal[1] EXCEPT !.text = Append(NumericText, NextChar)]>>
    /\ position' = position + 1 /\ pc' = "scan"
    /\ UNCHANGED <<parsed_args, current_identifier, current_operator, outcome>>

\* the text of the literal in progress is the input just read
TextAsRead == NumericText = SubSeq(args, position - Len(NumericText) + 1, position)

\* C23 as stated: a numeric literal terminates at the first character whose
\* appending would make its text no longer parse as a number; that
\* character is not consumed by the literal and is processed as the start
\* of the next token, so no input character is lost or processed twice.
C23_GivesBack ==
    /\ []((pc = "scan" /\ current_literal # <<>>) => TextAsRead)
    /\ [][NumericInProgress => IF IsFloatText(Append(NumericText, NextChar)) THEN Grown ELSE GivenBack]_vars

\* C23, amended: the same for every character that starts no registered
\* literal; a character that starts a registered literal, met while a
\* numeric literal is in progress, raises ExpressionSyntaxException.
C23_GivesBackOrRaises ==
    /\ []((pc = "scan" /\ current_literal # <<>>) => TextAsRead)
    /\ [][NumericInProgress =>
            IF NextChar \in DOMAIN LITERAL_SYNTAX_MAP
            THEN /\ outcome' = Raises("ExpressionSyntaxException", "Unexpected literal match")
                 /\ pc' = "done"
            ELSE IF IsFloatText(Append(NumericText, NextChar)) THEN Grown ELSE GivenBack]_vars

\* an operator candidate began with the character that ended a numeric
\* literal
C23_Witness ==
    /\ pc = "scan" /\ position > 1 /\ current_operator = <<<<args[position]>>>> /\ current_literal = <<>>
    /\ parsed_args # <<>> /\ parsed_args[Len(parsed_args)] = NumericLiteral(SubSeq(args, 1, position - 1))

----------------------------------------------------------------------------
(* literal.py: is_unterminated_literal *)

\* the end characters of the registered literals
LiteralEndChars == {LITERAL_SYNTAX_MAP[char].end_char[1] : char \in DOMAIN LITERAL_SYNTAX_MAP}

\* literal_end_chars, lines 675-679: the start character an end character
\* belongs to
OpenCharOf(end_char) == CHOOSE char \in DOMAIN LITERAL_SYNTAX_MAP : LITERAL_SYNTAX_MAP[char].end_char = <<end_char>>

RECURSIVE Replace(_, _)
\* str.replace(old, '')
Replace(s, old) ==
    IF Len(s) < Len(old) THEN s
    ELSE IF SubSeq(s, 1, Len(old)) = old THEN Replace(SubSeq(s, Len(old) + 1, Len(s)), old)
    ELSE <<s[1]>> \o Replace(Tail(s), old)

\* lines 691-701: the escaped start and end characters of one literal are
\* taken out of the value
RemoveEscapedOf(value_clone, char, match) ==
    IF match.escape_char = <<>> THEN value_clone
    ELSE IF match.end_char = <<>> THEN Replace(value_clone, match.escape_char \o <<char>>)
    ELSE Replace(Replace(value_clone, match.escape_char \o <<char>>), match.escape_char \o match.end_char)

RECURSIVE RemoveEscaped(_, _)
\* lines 685-701: the loop over the registered literals
RemoveEscaped(value_clone, chars) ==
    IF chars = <<>> THEN value_clone
    ELSE RemoveEscaped(RemoveEscapedOf(value_clone, chars[1], LITERAL_SYNTAX_MAP[chars[1]]), Tail(chars))

RECURSIVE ScanOpenCounts(_, _, _)
\* lines 703-739: the loop over the characters; masking holds zero or one
\* masking_end_char. The exception raised, or the open counts
ScanOpenCounts(value_clone, open_count, masking) ==
    IF value_clone = <<>> THEN [exc |-> "", open_count |-> open_count]
    ELSE IF masking # <<>>
    THEN IF value_clone[1] = masking[1]
         THEN ScanOpenCounts(Tail(value_clone), [open_count EXCEPT ![OpenCharOf(value_clone[1])] = @ - 1], <<>>)
         ELSE ScanOpenCounts(Tail(value_clone), open_count, masking)
    ELSE IF value_clone[1] \in DOMAIN LITERAL_SYNTAX_MAP
    THEN ScanOpenCounts(Tail(value_clone), [open_count EXCEPT ![value_clone[1]] = @ + 1],
                        IF LITERAL_SYNTAX_MAP[value_clone[1]].end_char = <<value_clone[1]>> THEN <<value_clone[1]>> ELSE <<>>)
    ELSE IF value_clone[1] \in LiteralEndChars
    THEN IF open_count[OpenCharOf(value_clone[1])] > 0
         THEN ScanOpenCounts(Tail(value_clone), [open_count EXCEPT ![OpenCharOf(value_clone[1])] = @ - 1], <<>>)
         ELSE [exc |-> "ExpressionSyntaxException", open_count |-> open_count]
    ELSE ScanOpenCounts(Tail(value_clone), open_count, masking)

\* lines 741-746: whether a literal is still open
AnyOpen(scanned) ==
    IF scanned.exc # "" THEN Raises("ExpressionSyntaxException", "Unexpected literal close character")
    ELSE Returns(PyBool(\E char \in DOMAIN LITERAL_SYNTAX_MAP : scanned.open_count[char] > 0))

\* is_unterminated_literal, lines 633-746
is_unterminated_literal(value) ==
    IF Len(value) <= 1 THEN Returns(PyBool(FALSE))
    ELSE AnyOpen(ScanOpenCounts(RemoveEscaped(value, LiteralStartChars), [char \in DOMAIN LITERAL_SYNTAX_MAP |-> 0], <<>>))

\* the characters of the values is_unterminated_literal is called with
LiteralAlphabet == {"(", ")", "[", "]", "\"", "'", "\\", "a"}

\* is_unterminated_literal(value) is called
InitUnterminated ==
    /\ entry = "is_unterminated_literal"
    /\ args \in UNION {[1..n -> LiteralAlphabet] : n \in 0..MaxLen}
    /\ context = EmptyContext
    /\ position = 0 /\ parsed_args = <<>> /\ current_identifier = <<>> /\ current_literal = <<>> /\ current_operator = <<>>
    /\ items = <<>> /\ NoEval /\ NoRender /\ NoRegister /\ NoLiteral
    /\ pc = "call"
    /\ outcome = Running

\* is_unterminated_literal, lines 633-746
IsUnterminatedLiteral ==
    /\ entry = "is_unterminated_literal"
    /\ pc = "call"
    /\ outcome' = is_unterminated_literal(args)
    /\ pc' = "done"
    /\ UNCHANGED <<entry, context, parseVars, evalVars, renderVars, registerVars, literalVars>>

\* a result of a registration: the exception raised, if any, and the map
Registry(exc, syntax_map) == [exc |-> exc, map |-> syntax_map]

\* _register_literal_class, lines 173-187
register_one_literal_class(syntax_map, is_subclass, start_char, end_char) ==
    IF ~is_subclass THEN Registry("ValueError", syntax_map)
    ELSE IF \E k \in 1..Len(syntax_map) : syntax_map[k].start_char = start_char
    THEN Registry("LiteralCharacterAlreadyInUseException", syntax_map)
    ELSE Registry("", Append(syntax_map, [start_char |-> start_char, end_char |-> end_char]))

RECURSIVE register_each_pair(_, _, _, _)

\* lines 240-247: the loop goes on after a pair was registered
register_next_pair(registered, is_subclass, start_char, end_char) ==
    IF registered.exc # "" THEN registered
    ELSE register_each_pair(registered.map, is_subclass, Tail(start_char), Tail(end_char))

\* register_literal_class, lines 240-247: the loop over
\* zip(start_char, end_char)
register_each_pair(syntax_map, is_subclass, start_char, end_char) ==
    IF start_char = <<>> \/ end_char = <<>> THEN Registry("", syntax_map)
    ELSE register_next_pair(register_one_literal_class(syntax_map, is_subclass, start_char[1], end_char[1]), is_subclass, start_char, end_char)

\* register_literal_class, the decorator, lines 222-270: start_char and
\* end_char are each a str of one character, a tuple of them, or None
register_literal_class(syntax_map, call) ==
    IF call.start_type # call.end_type THEN Registry("ValueError", syntax_map)
    ELSE IF call.start_type = "tuple"
    THEN IF Len(call.start_char) # Len(call.end_char) THEN Registry("ValueError", syntax_map)
         ELSE register_each_pair(syntax_map, call.is_subclass, call.start_char, call.end_char)
    ELSE register_one_literal_class(syntax_map, call.is_subclass, call.start_char[1], call.end_char[1])

\* the most start characters given as a tuple in one call
MaxPairs == 2

\* the characters the calls register: one that parse.py has registered,
\* and three that are free
RegisterStartChars == {"(", "{", "<", "|"}
RegisterEndChars == {")", "}"}

\* the calls of the decorator
LiteralCalls ==
    {[start_type |-> "str", start_char |-> <<start_char>>, end_type |-> end_type, end_char |-> end_char, is_subclass |-> is_subclass] :
        start_char \in RegisterStartChars, end_type \in {"str"}, end_char \in [1..1 -> RegisterEndChars], is_subclass \in BOOLEAN}
    \cup {[start_type |-> "str", start_char |-> <<start_char>>, end_type |-> "NoneType", end_char |-> <<>>, is_subclass |-> TRUE] :
        start_char \in RegisterStartChars}
    \cup {[start_type |-> "tuple", start_char |-> start_char, end_type |-> "tuple", end_char |-> end_char, is_subclass |-> TRUE] :
        start_char \in UNION {[1..n -> RegisterStartChars] : n \in 1..MaxPairs},
        end_char \in UNION {[1..n -> RegisterEndChars] : n \in 1..MaxPairs}}

\* parse.py is imported, and more literal classes are about to be
\* registered
InitRegisterLiteral ==
    /\ entry = "register_literal_class"
    /\ context = EmptyContext
    /\ NoParse /\ items = <<>> /\ NoEval /\ NoRender /\ NoRegister /\ NoLiteral
    /\ pc = "literal"
    /\ outcome = Running

\* a class is decorated with register_literal_class(start_char, value_type,
\* end_char, escape_char)
RegisterLiteralClass ==
    /\ pc = "literal"
    /\ \E call \in LiteralCalls :
        LET registered == register_literal_class(literal_syntax_map, call)
        IN  /\ literal_syntax_map' = registered.map
            /\ outcome' = IF registered.exc = "" THEN Returns(PyNone) ELSE Raises(registered.exc, "")
    /\ UNCHANGED <<entry, context, parseVars, evalVars, renderVars, registerVars, pc>>

\* ListLiteral.__init__, parse.py lines 153-159: the list of the item
\* texts, the item in progress last, None for an item with no character yet
ListLiteral == [cls |-> "ListLiteral", value |-> <<PyNone>>, end_char |-> <<"]">>]

\* what _append_character gives: the exception raised, if any, whether the
\* literal is complete, and the literal
Appended(exc, terminated, literal) == [exc |-> exc, terminated |-> terminated, literal |-> literal]

\* EnclosingLiteral._char_terminates_literal, parse.py lines 122-142.
\* is_unterminated_literal takes len(value) first (literal.py line 648),
\* which raises TypeError for None.
char_terminates_literal(literal, char, value) ==
    IF <<char>> # literal.end_char THEN Returns(PyBool(FALSE))
    ELSE IF value.t = "NoneType" THEN Raises("TypeError", "object of type 'NoneType' has no len()")
    ELSE IF is_unterminated_literal(value.s).exc # "" THEN is_unterminated_literal(value.s)
    ELSE Returns(PyBool(~is_unterminated_literal(value.s).value.b))

\* ListLiteral._append_character, lines 196-215: the character is neither
\* a separator nor whitespace to ignore
list_append_item_character(literal, char, previous_value, terminates) ==
    IF terminates.exc # "" THEN Appended(terminates.exc, FALSE, literal)
    ELSE IF terminates.value.b
    THEN Appended("", TRUE, IF previous_value.t = "NoneType" THEN [literal EXCEPT !.value = SubSeq(@, 1, Len(@) - 1)] ELSE literal)
    ELSE Appended("", FALSE, [literal EXCEPT !.value[Len(literal.value)] =
                                 PyStr(IF previous_value.t = "NoneType" THEN <<char>> ELSE Append(previous_value.s, char))])

\* ListLiteral._append_character, lines 172-215
list_append_character(literal, char) ==
    IF char = "," THEN Appended("", FALSE, [literal EXCEPT !.value = Append(@, PyNone)])
    ELSE IF IsSpace(char) /\ literal.value[Len(literal.value)].t = "NoneType" THEN Appended("", FALSE, literal)
    ELSE list_append_item_character(literal, char, literal.value[Len(literal.value)],
                                    char_terminates_literal(literal, char, literal.value[Len(literal.value)]))

\* the digits of s that start a run of digits
DigitRunStarts(s) == {k \in 1..Len(s) : s[k] \in Digits /\ (k = 1 \/ s[k - 1] \notin Digits)}

\* parse_string_to_value on an item made of digits and whitespace that
\* starts with a digit: the tokenizer gives one NumericLiteral for each run
\* of digits, the whitespace after the run in its text, which int() strips
\* (parse.py lines 52-97), and ParseTree.evaluate raises when more than one
\* item is left (parse_tree.py lines 215-227)
parse_item_to_value(value) ==
    IF Cardinality(DigitRunStarts(value)) = 1 THEN Returns(PyInt(DigitsValue(Strip(value))))
    ELSE Raises("ExpressionSyntaxException", "is not valid")

RECURSIVE list_evaluate_from(_, _)

\* ListLiteral.evaluate, lines 250-253: the item was parsed
list_evaluate_item(value, evaluated_list, parsed_value) ==
    IF parsed_value.exc # "" THEN parsed_value
    ELSE list_evaluate_from(Tail(value), Append(evaluated_list, parsed_value.value))

\* ListLiteral.evaluate, lines 233-255: the loop over the items still to
\* evaluate
list_evaluate_from(value, evaluated_list) ==
    IF value = <<>> THEN Returns(PyList(evaluated_list))
    ELSE IF value[1].t = "NoneType" THEN Raises("ExpressionSyntaxException", "Unexpected list separator")
    ELSE list_evaluate_item(value, evaluated_list, parse_item_to_value(value[1].s))

\* ListLiteral.evaluate, lines 217-255
list_evaluate(literal) == list_evaluate_from(literal.value, <<>>)

\* the characters given to a list literal after its '['
ListAlphabet == {"1", ",", " ", "]"}
\* [1,,2]
TextNullItem == <<"[", "1", ",", ",", "2", "]">>
\* [1, 2]
TextTwoItems == <<"[", "1", ",", " ", "2", "]">>
\* [1, ]
TextTrailingSeparator == <<"[", "1", ",", " ", "]">>

\* a ListLiteral is created for the '[' of a text, and is given the
\* characters after it
InitListLiteral ==
    /\ entry = "ListLiteral"
    /\ args \in {<<"[">> \o text : text \in UNION {[1..n -> ListAlphabet] : n \in 0..MaxLen}}
                \cup {TextNullItem, TextTwoItems, TextTrailingSeparator}
    /\ context = EmptyContext
    /\ position = 1 /\ parsed_args = <<>> /\ current_identifier = <<>> /\ current_literal = <<ListLiteral>> /\ current_operator = <<>>
    /\ items = <<>> /\ NoEval /\ NoRender /\ NoRegister /\ NoLiteral
    /\ pc = "append"
    /\ outcome = Running

\* the literal after the call of _append_character, or the exception
ListAppended(appended) ==
    IF appended.exc # ""
    THEN outcome' = Raises(appended.exc, "") /\ pc' = "done" /\ current_literal' = current_literal
    ELSE outcome' = outcome /\ pc' = (IF appended.terminated THEN "list" ELSE "append") /\ current_literal' = <<appended.literal>>

\* ListLiteral._append_character, lines 172-215, on the next character
ListAppendCharacter ==
    /\ entry = "ListLiteral"
    /\ pc = "append"
    /\ position < Len(args)
    /\ ListAppended(list_append_character(current_literal[1], args[position + 1]))
    /\ position' = position + 1
    /\ UNCHANGED <<entry, context, args, parsed_args, current_identifier, current_operator, evalVars, renderVars, registerVars, literalVars>>

\* ListLiteral.evaluate, lines 217-255, on the complete literal
ListEvaluate ==
    /\ entry = "ListLiteral"
    /\ pc = "list"
    /\ outcome' = list_evaluate(current_literal[1])
    /\ pc' = "done"
    /\ UNCHANGED <<entry, context, parseVars, evalVars, renderVars, registerVars, literalVars>>

InitLiteral == InitUnterminated \/ InitRegisterLiteral \/ InitListLiteral

NextLiteral ==
    \/ IsUnterminatedLiteral
    \/ RegisterLiteralClass
    \/ ListAppendCharacter
    \/ ListEvaluate

SpecLiteral == InitLiteral /\ [][NextLiteral]_vars

\* the quotation marks: the literals that end with their start character
Quotes == {char \in DOMAIN LITERAL_SYNTAX_MAP : LITERAL_SYNTAX_MAP[char].end_char = <<char>>}

\* the literals with an end character of their own, start and end
Brackets == {<<char, LITERAL_SYNTAX_MAP[char].end_char[1]>> : char \in DOMAIN LITERAL_SYNTAX_MAP \ Quotes}

RECURSIVE OutsideQuotes(_, _)
\* the characters of s that no quotation marks enclose, the marks left
\* out; quote holds the mark now open, if one is
OutsideQuotes(s, quote) ==
    IF s = <<>> THEN <<>>
    ELSE IF quote # <<>> THEN OutsideQuotes(Tail(s), IF s[1] = quote[1] THEN <<>> ELSE quote)
    ELSE IF s[1] \in Quotes THEN OutsideQuotes(Tail(s), <<s[1]>>)
    ELSE <<s[1]>> \o OutsideQuotes(Tail(s), <<>>)

RECURSIVE QuoteLeftOpen(_, _)
\* a quotation mark of s is never closed
QuoteLeftOpen(s, quote) ==
    IF s = <<>> THEN quote # <<>>
    ELSE IF quote # <<>> THEN QuoteLeftOpen(Tail(s), IF s[1] = quote[1] THEN <<>> ELSE quote)
    ELSE QuoteLeftOpen(Tail(s), IF s[1] \in Quotes THEN <<s[1]>> ELSE <<>>)

\* a close character of s has no open character before it to match
CloseWithoutOpen(s) ==
    \E k \in 1..Len(s) : \E pair \in Brackets :
        /\ s[k] = pair[2]
        /\ Count(SubSeq(s, 1, k), pair[2]) > Count(SubSeq(s, 1, k), pair[1])

\* what the value is, its escaped delimiters taken out
Balance(s) ==
    IF CloseWithoutOpen(OutsideQuotes(s, <<>>)) THEN Raises("ExpressionSyntaxException", "Unexpected literal close character")
    ELSE Returns(PyBool(\/ QuoteLeftOpen(s, <<>>)
                        \/ \E pair \in Brackets : Count(OutsideQuotes(s, <<>>), pair[1]) > Count(OutsideQuotes(s, <<>>), pair[2])))

\* C24: is_unterminated_literal(value) returns true exactly when, escaped
\* delimiters and text enclosed in quotes ignored, value contains a
\* registered literal start character that has more opens than matching
\* closes, for every length of value, a single character included; it
\* returns false when all are balanced, and raises
\* ExpressionSyntaxException on a close character with no matching open.
C24_Balanced ==
    (entry = "is_unterminated_literal" /\ pc = "done") => outcome = Balance(RemoveEscaped(args, LiteralStartChars))

----------------------------------------------------------------------------
(* create_literal *)

\* the tokenizer, nothing in progress, is about to take a character that
\* starts a registered literal: it calls create_literal with the match
CreatesLiteral == pc = "scan" /\ position < Len(args) /\ InProgress = 0 /\ NextChar \in DOMAIN LITERAL_SYNTAX_MAP

\* C25: create_literal returns an instance of the registered literal class
\* for every registry match whose value type is a type (str, list,
\* Expression); it raises ValueError only when the value type of the match
\* is not a type, and UnknownLiteralTypeException when the match has no
\* literal class.
C25_CreatesInstance ==
    [][CreatesLiteral =>
        IF LITERAL_SYNTAX_MAP[NextChar].literal_class = <<>>
        THEN outcome'.exc = "UnknownLiteralTypeException"
        ELSE IF IsType(LITERAL_SYNTAX_MAP[NextChar].value_type)
        THEN /\ pc' = "scan"
             /\ current_literal' = <<Literal(LITERAL_SYNTAX_MAP[NextChar].literal_class[1], <<>>, LITERAL_SYNTAX_MAP[NextChar].end_char)>>
        ELSE outcome'.exc = "ValueError"]_vars

----------------------------------------------------------------------------
(* The registration of the literal classes *)

\* C26: a literal registration that fails with
\* LiteralCharacterAlreadyInUseException leaves the literal registry
\* exactly as it was before the call, both when the start character is
\* given singly and when several start and end pairs are given as tuples
\* in one call.
C26_FailedRegistration ==
    [][(pc = "literal" /\ outcome'.exc = "LiteralCharacterAlreadyInUseException") => literal_syntax_map' = literal_syntax_map]_vars

----------------------------------------------------------------------------
(* The operands of an applied operator *)

\* the loop is about to call the function of a unary or binary operator:
\* the neighbours it needs are there
CallsOperator ==
    /\ Applying
    /\ argument_count(AppliedOperator) > 0
    /\ ~MissingLeftOperand(argument_count(AppliedOperator) = 2, AppliedIndex)
    /\ ~MissingRightOperand(TRUE, AppliedIndex, Len(evaluated_items))

\* C27: whenever the evaluator applies a unary or binary operator, every
\* operand it passes to the operator's function is an evaluated value and
\* never an operator token not yet applied; so an expression with two
\* adjacent operators ('not not x', '1 + * 2') is never reduced to a value
\* by using an operator as an operand.
C27_OperandsAreValues ==
    CallsOperator =>
        /\ evaluated_items[AppliedIndex + 2].t # "Operator"
        /\ argument_count(AppliedOperator) = 2 => evaluated_items[AppliedIndex].t # "Operator"

----------------------------------------------------------------------------
(* Tags inside an open block *)

\* the templates with a tag in the if branch, an unknown tag or an inline
\* tag, and the contexts that do not select that branch
SkippedTemplates == {SkippedOtherLines, SkippedIncludeLines}
BranchNotSelected == template_str \in SkippedTemplates /\ context \in {EmptyContext, DifferentContext, ShadowContext}

\* C28: while a block is open, the scan executes no tag inside it: a tag
\* that does not close the block adds nothing to the output and raises
\* nothing. Only the content the handler returns is rendered again, so an
\* unknown tag or an inline tag in a branch that is not selected leaves the
\* output as it is without it, 'B', and raises nothing.
C28_OpenBlockSkips ==
    /\ [][(BlockOpen /\ ~ClosingBlock) =>
            /\ preprocessed_template_str' = preprocessed_template_str
            /\ next_start_index' = next_start_index
            /\ outcome' = outcome
            /\ opened_block' # <<>>]_vars
    /\ []((RenderDone /\ BranchNotSelected) => outcome = Returns(PyStr(TextB)))

\* a template with an unknown tag in the branch not selected is rendered
C28_Witness == RenderDone /\ template_str = SkippedOtherLines /\ context = DifferentContext /\ outcome = Returns(PyStr(TextB))

----------------------------------------------------------------------------
(* The empty slots of a list literal *)

\* the list literal is given its end character while its current item is
\* still empty
EndOfEmptyItem ==
    /\ entry = "ListLiteral" /\ pc = "append" /\ position < Len(args)
    /\ args[position + 1] = "]"
    /\ current_literal[1].value[Len(current_literal[1].value)] = PyNone

ListDone == entry = "ListLiteral" /\ pc = "done"

\* C29: a list literal that receives ']' while its current item is still
\* empty terminates and drops the empty trailing slot, so '[]' evaluates to
\* the empty list; an empty slot followed by another separator, as in
\* '[1,,2]', is kept and makes evaluation raise ExpressionSyntaxException.
C29_EmptySlot ==
    /\ [][EndOfEmptyItem =>
            /\ pc' = "list"
            /\ current_literal'[1].value = SubSeq(current_literal[1].value, 1, Len(current_literal[1].value) - 1)]_vars
    /\ []((ListDone /\ args = <<"[", "]">>) => outcome = Returns(PyList(<<>>)))
    /\ []((ListDone /\ args = TextNullItem) => outcome.exc = "ExpressionSyntaxException")

----------------------------------------------------------------------------
(* The context after a for block *)

\* the tag now seen closes an open for block
ClosingFor == ClosingBlock /\ ClosedBlock.tag = TAG_FOR

\* the output of the loop of ForLines over the items 1, 2, 3
LoopOutput == <<"1", ";", "2", ";", "3", ";">>

\* C30: rendering a for block leaves the mapping of the caller unchanged:
\* the loop variable is bound only in a copy made for each item, so after
\* the block its name has in the outer context the value, or the absence,
\* it had before, and no other key changes. A field of the loop variable
\* after the block is a KeyError when the context has no such key.
C30_ContextUnchanged ==
    /\ [][ClosingFor => context' = context]_vars
    /\ []((RenderDone /\ template_str = ForThenFieldLines /\ context = DifferentContext) => outcome.exc = "KeyError")

\* the for block of ForLines was rendered over three items
C30_Witness ==
    /\ entry = "TemplateRenderer.render" /\ template_str = ForThenFieldLines /\ context = DifferentContext
    /\ pc = "format" /\ preprocessed_template_str = LoopOutput \o Newline \o FieldX

====
